---- MODULE Spec2Model ----
(***************************************************************************)
(* Multi-Agent-Researcher: the supervisor/worker pipeline (src/src/graph.py, *)
(* router.py, agents/*.py), the retry wrapper (src/src/utils.py) and the    *)
(* background task lifecycle (src/src/api/*.py).                            *)
(*                                                                         *)
(* Python dicts (graph state, node updates, the runner's running_state)    *)
(* are TLA+ functions whose DOMAIN is the set of keys present, so that     *)
(* dict.get(key, default) and "key absent" are modelled as in the code.    *)
(* Free text is abstracted to short tokens; "" is the empty string.        *)
(***************************************************************************)
EXTENDS Integers, Sequences, FiniteSets, TLC

\* ---------------------------------------------------------------- bounds
\* Number of failed node executions PairSpec injects over all its runs.
MaxFaults == 1
\* langgraph's recursion_limit for graph.stream (library default 25; a
\* smaller value keeps the state space finite and small).
RecursionLimit == 8
\* Length of the outcome scripts the retry wrapper is exercised with.
MaxCalls == 4
\* The stall iteration limit of the specification's configuration surface
\* (run_workflow and create_workflow take no such setting)
StallLimit == 2
\* Length of the event log the calls on the task store alone build up.
MaxEvents == 2
\* Number of messages in an update the state merge alone is applied to.
MaxMsgs == 2

\* ------------------------------------------------------------- constants
\* stop_after_attempt(3)
StopAfterAttempt == 3
\* wait_exponential(multiplier=1, min=2, max=10)
WaitMultiplier == 1
WaitMin == 2
WaitMax == 10
\* supervisor's own retry loop: max_retries = 3
max_retries == 3
\* TaskProgress(total_agents=5)
total_agents == 5

END == "__end__"
None == "None"

\* dict.get(key, default)
Get(d, k, default) == IF k \in DOMAIN d THEN d[k] ELSE default

Max2(a, b) == IF a >= b THEN a ELSE b
Min2(a, b) == IF a <= b THEN a ELSE b

RECURSIVE Pow2(_)
Pow2(n) == IF n <= 0 THEN 1 ELSE 2 * Pow2(n - 1)

HumanMessage(c) == [role |-> "human", content |-> c]
AIMessage(c) == [role |-> "ai", content |-> c]

\* --------------------------------------------------------------- retry
\* An external call is scripted by a sequence of per-attempt outcomes:
\* a failure (an exception) or a returned value.
Failures == {"fail", "tool_use_failed"}
IsFailure(o) == o \in Failures

\* tenacity wait_exponential: exp_base ** (attempt_number - 1) * multiplier,
\* clamped to [min, max]
wait_exponential(attempt_number) ==
    Max2(Max2(0, WaitMin), Min2(WaitMultiplier * Pow2(attempt_number - 1), WaitMax))

\* Variant: gives up after the second attempt
stop_after_attempt_early(attempt_number) == attempt_number >= StopAfterAttempt - 1
\* Variant: allows a fourth attempt
stop_after_attempt_late(attempt_number) == attempt_number >= StopAfterAttempt + 1

stop_after_attempt(attempt_number) == attempt_number >= StopAfterAttempt

\* invoke_with_retry: call, on exception either stop (reraise the last
\* exception) or sleep and call again.
RECURSIVE RetryFrom(_, _, _)
RetryFrom(beh, attempt_number, waits) ==
    IF IsFailure(beh[attempt_number])
    THEN IF stop_after_attempt(attempt_number)
         THEN [calls |-> attempt_number, raised |-> TRUE,
               value |-> beh[attempt_number], waits |-> waits]
         ELSE RetryFrom(beh, attempt_number + 1,
                        Append(waits, wait_exponential(attempt_number)))
    ELSE [calls |-> attempt_number, raised |-> FALSE,
          value |-> beh[attempt_number], waits |-> waits]

invoke_with_retry(beh) == RetryFrom(beh, 1, <<>>)

\* -------------------------------------------------------------- router
\* Variant: task_complete is looked at before next_agent
router_complete_first(state) ==
    LET next_agent == IF "next_agent" \in DOMAIN state
                      THEN state["next_agent"] ELSE "supervisor" IN
    IF next_agent = "end"
         \/ ("task_complete" \in DOMAIN state /\ state["task_complete"]) THEN "__end__"
    ELSE IF next_agent \in {"supervisor", "researcher", "analyst", "writer", "evaluator"}
         THEN next_agent
    ELSE "supervisor"

router(state) ==
    LET next_agent == Get(state, "next_agent", "supervisor") IN
    IF next_agent = "evaluator" THEN "evaluator"
    ELSE IF next_agent = "end" \/ Get(state, "task_complete", FALSE) THEN END
    ELSE IF next_agent \in {"supervisor", "researcher", "analyst", "writer"}
         THEN next_agent
    ELSE "supervisor"

\* ---------------------------------------------------------- supervisor
\* First HumanMessage of the conversation, "" when there is none.
RECURSIVE FirstHuman(_)
FirstHuman(msgs) ==
    IF msgs = <<>> THEN ""
    ELSE IF Head(msgs).role = "human" THEN Head(msgs).content
    ELSE FirstHuman(Tail(msgs))

\* for attempt in range(max_retries): chain.invoke(...); sleep(2 ** attempt)
RECURSIVE SupervisorChainFrom(_, _, _)
SupervisorChainFrom(beh, attempt, waits) ==
    IF IsFailure(beh[attempt + 1])
    THEN IF attempt = max_retries - 1
         THEN [calls |-> attempt + 1, raised |-> TRUE,
               value |-> beh[attempt + 1], waits |-> waits]
         ELSE SupervisorChainFrom(beh, attempt + 1, Append(waits, Pow2(attempt)))
    ELSE [calls |-> attempt + 1, raised |-> FALSE,
          value |-> beh[attempt + 1], waits |-> waits]

supervisor_chain(beh) == SupervisorChainFrom(beh, 0, <<>>)

\* Variant: the classifier's "done" is believed before the state is looked at
supervisor_decide_trusting(has_research, has_analysis, has_report, decision_text) ==
    IF has_report \/ decision_text = "done"
    THEN [next_agent |-> "end", msg |-> "Supervisor: All tasks complete",
          routing_reason |-> "report complete"]
    ELSE IF ~has_research
    THEN [next_agent |-> "researcher", msg |-> "Supervisor: Assigning to Researcher (start)",
          routing_reason |-> "no research data found"]
    ELSE IF ~has_analysis
    THEN [next_agent |-> "analyst", msg |-> "Supervisor: Assigning to Analyst (research done)",
          routing_reason |-> "research complete, analysis pending"]
    ELSE [next_agent |-> "writer", msg |-> "Supervisor: Assigning to Writer (analysis complete)",
          routing_reason |-> "analysis complete, report pending"]

\* Variant: a missing analysis sends the run back to the researcher
supervisor_decide_regather(has_research, has_analysis, has_report, decision_text) ==
    IF has_report
    THEN [next_agent |-> "end", msg |-> "Supervisor: All tasks complete",
          routing_reason |-> "report complete"]
    ELSE IF ~has_research \/ ~has_analysis
    THEN [next_agent |-> "researcher", msg |-> "Supervisor: Assigning to Researcher (start)",
          routing_reason |-> "no research data found"]
    ELSE [next_agent |-> "writer", msg |-> "Supervisor: Assigning to Writer (analysis complete)",
          routing_reason |-> "analysis complete, report pending"]

\* The decision of supervisor_agent.agent once the classifier text is known.
supervisor_decide(has_research, has_analysis, has_report, decision_text) ==
    IF has_report
    THEN [next_agent |-> "end", msg |-> "Supervisor: All tasks complete",
          routing_reason |-> "report complete"]
    ELSE IF ~has_research
    THEN [next_agent |-> "researcher", msg |-> "Supervisor: Assigning to Researcher (start)",
          routing_reason |-> "no research data found"]
    ELSE IF has_research /\ ~has_analysis
    THEN [next_agent |-> "analyst", msg |-> "Supervisor: Assigning to Analyst (research done)",
          routing_reason |-> "research complete, analysis pending"]
    ELSE IF has_analysis /\ ~has_report
    THEN [next_agent |-> "writer", msg |-> "Supervisor: Assigning to Writer (analysis complete)",
          routing_reason |-> "analysis complete, report pending"]
    ELSE IF decision_text = "researcher"
    THEN [next_agent |-> "researcher", msg |-> "Supervisor: Assigning to Researcher",
          routing_reason |-> "LLM fallback"]
    ELSE IF decision_text = "analyst"
    THEN [next_agent |-> "analyst", msg |-> "Supervisor: Assigning to Analyst",
          routing_reason |-> "LLM fallback"]
    ELSE IF decision_text = "writer"
    THEN [next_agent |-> "writer", msg |-> "Supervisor: Assigning to Writer",
          routing_reason |-> "LLM fallback"]
    ELSE [next_agent |-> "end", msg |-> "Supervisor: Task seems complete",
          routing_reason |-> "LLM says done"]

supervisor_error(state) ==
    [messages |-> <<AIMessage("Supervisor encountered an error")>>,
     next_agent |-> "supervisor",
     current_task |-> Get(state, "current_task", ""),
     error |-> "E"]

\* supervisor_agent.agent: the update it returns for `state` when the
\* classifier call behaves as scripted by `beh`.
supervisor_agent(state, beh) ==
    IF "messages" \notin DOMAIN state THEN supervisor_error(state)
    ELSE
    LET messages == state["messages"]
        task0 == Get(state, "current_task", "")
        task1 == IF task0 = "" THEN FirstHuman(messages) ELSE task0
        task == IF task1 = "" THEN "No task provided" ELSE task1
        has_research == Get(state, "research_data", "") # ""
        has_analysis == Get(state, "analysis", "") # ""
        has_report == Get(state, "final_report", "") # ""
        decision == supervisor_chain(beh)
        d == supervisor_decide(has_research, has_analysis, has_report, decision.value)
    IN  IF decision.raised THEN supervisor_error(state)
        ELSE [messages |-> <<AIMessage(d.msg)>>,
              next_agent |-> d.next_agent,
              routing_reason |-> d.routing_reason,
              current_task |-> task]

\* ------------------------------------------------------------- workers
\* Task text a worker uses: current_task, else the first HumanMessage,
\* else the worker's placeholder.
task_of(state, placeholder) ==
    LET t0 == Get(state, "current_task", "")
        t1 == IF t0 = "" THEN FirstHuman(Get(state, "messages", <<>>)) ELSE t0
    IN  IF t1 = "" THEN placeholder ELSE t1

\* research_data += "\n\nSources:\n" + ...   (only when sources is non-empty)
AppendSources(research_data, sources) ==
    IF sources = <<>> THEN research_data
    ELSE IF research_data = "" THEN "Sources" ELSE "R+Sources"

researcher_error ==
    [messages |-> <<AIMessage("Researcher encountered an error")>>,
     research_data |-> "",
     next_agent |-> "supervisor",
     error |-> "E"]

researcher_ok(research_data0, sources) ==
    [messages |-> <<AIMessage("Researcher: I've completed the research")>>,
     research_data |-> AppendSources(research_data0, sources),
     sources |-> sources,
     next_agent |-> "supervisor"]

\* researcher_agent.agent.  tools: whether a search tool is bound.
\* io.c1: first (tool-calling) call; io.tool: the urls the tool returns
\* (<<>> also when the tool raises, which is caught); io.c2: follow-up call
\* after tool execution; io.c3: plain call without tools.
researcher_agent(state, tools, io) ==
    IF tools
    THEN LET r1 == invoke_with_retry(io.c1) IN
         IF r1.raised
         THEN IF r1.value = "tool_use_failed"
              THEN LET r3 == invoke_with_retry(io.c3) IN
                   IF r3.raised THEN researcher_error
                   ELSE researcher_ok(r3.value, <<>>)
              ELSE researcher_error
         ELSE IF r1.value = "toolcall"
         THEN LET sources == io.tool
                  r2 == invoke_with_retry(io.c2) IN
              IF r2.raised
              THEN IF r2.value = "tool_use_failed"
                   THEN LET r3 == invoke_with_retry(io.c3) IN
                        IF r3.raised THEN researcher_error
                        ELSE researcher_ok(r3.value, sources)
                   ELSE researcher_error
              ELSE researcher_ok(r2.value, sources)
         ELSE researcher_ok(r1.value, <<>>)
    ELSE LET r3 == invoke_with_retry(io.c3) IN
         IF r3.raised THEN researcher_error
         ELSE researcher_ok(r3.value, <<>>)

\* Variant: the analyst does not look for research_data before it calls
analyst_agent_eager(state, beh) ==
    LET r == invoke_with_retry(beh) IN
    IF r.raised
    THEN [messages |-> <<AIMessage("Analyst encountered an error")>>,
          analysis |-> "",
          next_agent |-> "supervisor",
          error |-> "E"]
    ELSE [messages |-> <<AIMessage("Analyst: I've completed the analysis.")>>,
          analysis |-> r.value,
          next_agent |-> "supervisor"]

\* Variant: no try/except around the call, the exception leaves the node
analyst_agent_unguarded(state, beh) ==
    IF Get(state, "research_data", "") = ""
    THEN [messages |-> <<AIMessage("Analyst: No research data available to analyze.")>>,
          analysis |-> "",
          next_agent |-> "supervisor",
          error |-> "No research data"]
    ELSE LET r == invoke_with_retry(beh) IN
         IF r.raised
         THEN [exception |-> "E"]
         ELSE [messages |-> <<AIMessage("Analyst: I've completed the analysis.")>>,
               analysis |-> r.value,
               next_agent |-> "supervisor"]

analyst_agent(state, beh) ==
    IF Get(state, "research_data", "") = ""
    THEN [messages |-> <<AIMessage("Analyst: No research data available to analyze.")>>,
          analysis |-> "",
          next_agent |-> "supervisor",
          error |-> "No research data"]
    ELSE LET r == invoke_with_retry(beh) IN
         IF r.raised
         THEN [messages |-> <<AIMessage("Analyst encountered an error")>>,
               analysis |-> "",
               next_agent |-> "supervisor",
               error |-> "E"]
         ELSE [messages |-> <<AIMessage("Analyst: I've completed the analysis.")>>,
               analysis |-> r.value,
               next_agent |-> "supervisor"]

\* final_report = f"\nFINAL REPORT\n...Topic: {task}...\n{report}\n"
FormatReport(report) ==
    IF report = "" THEN "FINAL REPORT()" ELSE "FINAL REPORT(W)"

\* Variant: a finished report goes back to the supervisor
writer_agent_to_supervisor(state, beh) ==
    IF Get(state, "research_data", "") = "" \/ Get(state, "analysis", "") = ""
    THEN [messages |-> <<AIMessage("Writer: Missing research data or analysis.")>>,
          final_report |-> "",
          next_agent |-> "supervisor",
          error |-> "Missing required data"]
    ELSE LET r == invoke_with_retry(beh) IN
         IF r.raised
         THEN [messages |-> <<AIMessage("Writer encountered an error")>>,
               final_report |-> "",
               next_agent |-> "supervisor",
               task_complete |-> FALSE,
               error |-> "E"]
         ELSE [messages |-> <<AIMessage("Writer: Report complete!")>>,
               final_report |-> FormatReport(r.value),
               next_agent |-> "supervisor",
               task_complete |-> TRUE]

writer_agent(state, beh) ==
    IF Get(state, "research_data", "") = "" \/ Get(state, "analysis", "") = ""
    THEN [messages |-> <<AIMessage("Writer: Missing research data or analysis.")>>,
          final_report |-> "",
          next_agent |-> "supervisor",
          error |-> "Missing required data"]
    ELSE LET r == invoke_with_retry(beh) IN
         IF r.raised
         THEN [messages |-> <<AIMessage("Writer encountered an error")>>,
               final_report |-> "",
               next_agent |-> "supervisor",
               task_complete |-> FALSE,
               error |-> "E"]
         ELSE [messages |-> <<AIMessage("Writer: Report complete!")>>,
               final_report |-> FormatReport(r.value),
               next_agent |-> "evaluator",
               task_complete |-> TRUE]

Metrics == <<"factual consistency", "completeness", "clarity", "actionability">>

RECURSIVE SumSeq(_)
SumSeq(s) == IF s = <<>> THEN 0 ELSE Head(s) + SumSeq(Tail(s))

\* scores = {metric: value}; the empty dict is the empty function
NoScores == <<>>
ScoresDict(v) == [m \in {Metrics[i] : i \in 1..4} |->
                    v[CHOOSE i \in 1..4 : Metrics[i] = m]]

\* Variant: a mean of exactly 7 does not pass
evaluation_passed_of_above(v) == SumSeq(v) > 7 * Len(v)

\* avg_score = sum(scores.values()) / len(scores); passed = avg_score >= 7.0
\* (floor(x) >= 7 iff x >= 7, so integer division decides the comparison)
evaluation_passed_of(v) == (SumSeq(v) \div Len(v)) >= 7

\* The structured replies of the judge model (EvaluationScores, each 0..10)
ReplyScores ==
    [s7777 |-> <<7, 7, 7, 7>>, s6777 |-> <<6, 7, 7, 7>>]

evaluator_error ==
    [messages |-> <<AIMessage("Evaluator encountered an error")>>,
     next_agent |-> "supervisor",
     evaluation_scores |-> NoScores,
     evaluation_feedback |-> "Error during evaluation",
     evaluation_passed |-> FALSE,
     error |-> "E"]

\* str(e) of the ValueError raised when GALILEO_API_KEY is not set
GalileoKeyMsg == "GALILEO_API_KEY environment variable is required"

\* The except branch on that ValueError
evaluator_config_error ==
    [messages |-> <<AIMessage("Evaluator encountered an error")>>,
     next_agent |-> "supervisor",
     evaluation_scores |-> NoScores,
     evaluation_feedback |-> "Error during evaluation",
     evaluation_passed |-> FALSE,
     error |-> GalileoKeyMsg]

\* The update the evaluator returns for the reply v of the judge model
evaluator_ok(v) ==
    [messages |-> <<AIMessage(IF evaluation_passed_of(v)
                              THEN "Evaluator: Evaluation complete. PASSED"
                              ELSE "Evaluator: Evaluation complete. FAILED")>>,
     next_agent |-> "supervisor",
     evaluation_scores |-> ScoresDict(v),
     evaluation_feedback |-> "feedback",
     evaluation_passed |-> evaluation_passed_of(v)]

\* evaluator_agent.agent.  galileo: "ok", "unavailable" (SDK missing, no
\* GALILEO_API_KEY or init failure) or "logfail" (trace logging raises).
\* beh scripts the structured-output call; its value names the reply, whose
\* four scores are ReplyScores[value].
evaluator_agent(state, galileo, beh) ==
    IF Get(state, "final_report", "") = ""
    THEN [messages |-> <<AIMessage("Evaluator: No report found to evaluate.")>>,
          next_agent |-> "supervisor",
          evaluation_scores |-> NoScores,
          evaluation_feedback |-> "No report available for evaluation.",
          evaluation_passed |-> FALSE]
    ELSE IF galileo = "nokey" THEN evaluator_config_error
    ELSE IF galileo = "unavailable" THEN evaluator_error
    ELSE LET r == invoke_with_retry(beh) IN
         IF r.raised \/ galileo = "logfail" THEN evaluator_error
         ELSE evaluator_ok(ReplyScores[r.value])

\* ------------------------------------------------- attempts of a stage
\* How many times one execution of a node calls the model it talks to:
\* the attempts of each invoke_with_retry (or, in the supervisor, of its
\* own loop around chain.invoke) the execution reaches.
supervisor_attempts(state, beh) == supervisor_chain(beh).calls

researcher_attempts(state, tools, io) ==
    LET n1 == invoke_with_retry(io.c1)
        n2 == invoke_with_retry(io.c2)
        n3 == invoke_with_retry(io.c3)
    IN  IF tools
        THEN IF n1.raised
             THEN IF n1.value = "tool_use_failed" THEN n1.calls + n3.calls
                  ELSE n1.calls
             ELSE IF n1.value = "toolcall"
             THEN IF n2.raised /\ n2.value = "tool_use_failed"
                  THEN n1.calls + n2.calls + n3.calls
                  ELSE n1.calls + n2.calls
             ELSE n1.calls
        ELSE n3.calls

analyst_attempts(state, beh) ==
    IF Get(state, "research_data", "") = "" THEN 0
    ELSE invoke_with_retry(beh).calls

writer_attempts(state, beh) ==
    IF Get(state, "research_data", "") = "" \/ Get(state, "analysis", "") = "" THEN 0
    ELSE invoke_with_retry(beh).calls

evaluator_attempts(state, galileo, beh) ==
    IF Get(state, "final_report", "") = "" \/ galileo \in {"nokey", "unavailable"}
    THEN 0
    ELSE invoke_with_retry(beh).calls

\* ---------------------------------------------------------- state merge
\* Variant: the messages of the update go first
merge_state_prepending(current, update) ==
    [k \in DOMAIN current \cup DOMAIN update |->
        IF k \notin DOMAIN update THEN current[k]
        ELSE IF k = "messages" THEN update[k] \o Get(current, "messages", <<>>)
        ELSE update[k]]

\* Variant: a text field the update does not name is reset
merge_state_clearing(current, update) ==
    [k \in DOMAIN current \cup DOMAIN update |->
        IF k \notin DOMAIN update
        THEN IF k \in {"research_data", "analysis", "final_report"} THEN "" ELSE current[k]
        ELSE IF k = "messages" THEN Get(current, "messages", <<>>) \o update[k]
        ELSE update[k]]

\* Variant: the update becomes the snapshot
merge_state_replacing(current, update) ==
    update

\* _merge_state(current, update) of the workflow runner
merge_state(current, update) ==
    [k \in DOMAIN current \cup DOMAIN update |->
        IF k \notin DOMAIN update THEN current[k]
        ELSE IF k = "messages" THEN Get(current, "messages", <<>>) \o update[k]
        ELSE IF k = "evaluation_scores" /\ k \in DOMAIN current
             THEN [m \in DOMAIN current[k] \cup DOMAIN update[k] |->
                     IF m \in DOMAIN update[k] THEN update[k][m] ELSE current[k][m]]
        ELSE update[k]]

\* Keys of SupervisorState (MessagesState + the declared fields)
StateKeys == {"messages", "next_agent", "routing_reason", "research_data",
              "analysis", "final_report", "task_complete", "current_task",
              "evaluation_scores", "evaluation_feedback", "evaluation_passed",
              "sources"}

\* How the compiled StateGraph applies a node's update to its own state:
\* keys outside the schema are dropped, messages are appended (add_messages
\* reducer), every other key is overwritten.
graph_apply(state, update) ==
    [k \in DOMAIN state \cup (DOMAIN update \cap StateKeys) |->
        IF k \notin DOMAIN update THEN state[k]
        ELSE IF k = "messages" THEN Get(state, "messages", <<>>) \o update[k]
        ELSE update[k]]

\* ------------------------------------------------------------- progress
\* Variant: the node named by next_agent is always the current one
extract_progress_naming_next(state) ==
    LET c1 == IF Get(state, "research_data", "") # "" THEN <<"researcher">> ELSE <<>>
        c2 == IF Get(state, "analysis", "") # "" THEN <<"analyst">> ELSE <<>>
        c3 == IF Get(state, "final_report", "") # "" THEN <<"writer">> ELSE <<>>
        c4 == IF Get(state, "evaluation_scores", <<>>) # <<>>
              THEN <<"evaluator">> ELSE <<>>
    IN  [current_agent |-> Get(state, "next_agent", "supervisor"),
         completed_agents |-> c1 \o c2 \o c3 \o c4,
         total_agents |-> 5,
         events |-> <<>>]

extract_progress_from_state(state) ==
    LET c1 == IF Get(state, "research_data", "") # "" THEN <<"researcher">> ELSE <<>>
        c2 == IF Get(state, "analysis", "") # "" THEN <<"analyst">> ELSE <<>>
        c3 == IF Get(state, "final_report", "") # "" THEN <<"writer">> ELSE <<>>
        c4 == IF Get(state, "evaluation_scores", NoScores) # NoScores
              THEN <<"evaluator">> ELSE <<>>
        completed_agents == c1 \o c2 \o c3 \o c4
        next_agent == Get(state, "next_agent", "supervisor")
        current_agent ==
            IF next_agent # "end"
               /\ \A i \in 1..Len(completed_agents) : completed_agents[i] # next_agent
            THEN next_agent ELSE None
    IN  [current_agent |-> current_agent,
         completed_agents |-> completed_agents,
         total_agents |-> total_agents,
         events |-> <<>>]

\* ============================================================ the state
VARIABLES
    tasks,     \* TaskStore._tasks: task_id -> record
    issued,    \* the task ids handed out so far (uuid4 values are fresh)
    runs,      \* task_id -> the background run_workflow call of that task
    environ,   \* os.environ["USE_WEB_SEARCH"]
    faults,    \* failed node executions injected so far (PairSpec only)
    probe      \* harness of the pure-function specifications

vars == <<tasks, issued, runs, environ, faults, probe>>

\* The uuid4 values str(uuid.uuid4()) returns, in the order it returns them
TaskIds == {"t1", "t2"}
uuid4(used) == IF "t1" \notin used THEN "t1" ELSE "t2"
Texts == {"q"}

\* Optional values that are not strings: <<>> is None, <<x>> is x
NoneOpt == <<>>
Opt(x) == <<x>>

\* ------------------------------------------------------- the task store
TaskProgress0 ==
    [current_agent |-> None, completed_agents |-> <<>>,
     total_agents |-> total_agents, events |-> <<>>]

\* Variant: the record starts in the status the HTTP response reports
create_task_processing(store, task_id, task) ==
    (task_id :> [task_id |-> task_id, task |-> task, status |-> "processing",
                 progress |-> TaskProgress0, result |-> NoneOpt, error |-> None])
    @@ store

create_task(store, task_id, task) ==
    (task_id :> [task_id |-> task_id, task |-> task, status |-> "pending",
                 progress |-> TaskProgress0, result |-> NoneOpt, error |-> None])
    @@ store

\* update_status writes the record a field at a time and holds no lock:
\* `status` (line 35), then `error` when one is given (lines 37-38).
update_status_status(store, task_id, status) ==
    IF task_id \in DOMAIN store
    THEN [store EXCEPT ![task_id].status = status]
    ELSE store

update_status_error(store, task_id, error) ==
    IF task_id \in DOMAIN store /\ error # "" /\ error # None
    THEN [store EXCEPT ![task_id].error = error]
    ELSE store

update_status(store, task_id, status, error) ==
    update_status_error(update_status_status(store, task_id, status), task_id, error)

\* Variant: the summary is stored as it comes
update_progress_as_given(store, task_id, progress) ==
    IF task_id \in DOMAIN store
    THEN [store EXCEPT ![task_id].progress = progress]
    ELSE store

\* Variant: a summary for an identifier the table does not hold opens a
\* record for it
update_progress_creating(store, task_id, progress) ==
    IF task_id \in DOMAIN store
    THEN [store EXCEPT ![task_id].progress =
              [progress EXCEPT !.events = store[task_id].progress.events]]
    ELSE (task_id :> [task_id |-> task_id, task |-> "", status |-> "processing",
                      progress |-> progress, result |-> NoneOpt, error |-> None])
         @@ store

\* data = progress.model_dump(); data["events"] = existing_events
update_progress(store, task_id, progress) ==
    IF task_id \in DOMAIN store
    THEN [store EXCEPT ![task_id].progress =
              [progress EXCEPT !.events = store[task_id].progress.events]]
    ELSE store

append_event(store, task_id, event) ==
    IF task_id \notin DOMAIN store THEN store
    ELSE [store EXCEPT ![task_id].progress.events = Append(@, event)]

\* Variant: the first write of set_result is the status
set_result_status_first(store, task_id, result) ==
    IF task_id \in DOMAIN store
    THEN [store EXCEPT ![task_id].status = "completed"]
    ELSE store

\* set_result writes `result` (line 69), then `status` (line 70), again
\* with no lock.
set_result_result(store, task_id, result) ==
    IF task_id \in DOMAIN store
    THEN [store EXCEPT ![task_id].result = Opt(result)]
    ELSE store

\* Variant: the status is left as it was
set_result_status_skipped(store, task_id) ==
    store

set_result_status(store, task_id) ==
    IF task_id \in DOMAIN store
    THEN [store EXCEPT ![task_id].status = "completed"]
    ELSE store

set_result(store, task_id, result) ==
    set_result_status(set_result_result(store, task_id, result), task_id)

\* Variant: a delete empties the store
delete_task_all(store, task_id) ==
    <<>>

delete_task(store, task_id) ==
    [t \in DOMAIN store \ {task_id} |-> store[t]]

\* What delete_task, get_task and get_all_tasks return
delete_task_returns(store, task_id) == task_id \in DOMAIN store
get_task(store, task_id) ==
    IF task_id \in DOMAIN store THEN Opt(store[task_id]) ELSE NoneOpt
get_all_tasks(store) == store

\* ------------------------------------------------ inputs of a run's steps
\* Scripts of an external call: it answers v at once, answers v on the
\* third attempt, or fails on every attempt (the last exception being f).
Scripts(V, F) ==
    {<<v>> : v \in V} \cup {<<"fail", "fail", v>> : v \in V}
    \cup {<<"fail", "fail", f>> : f \in F}

ClassifierTexts == {"writer", "done"}
BadUrl == "<not a str>"
ToolOutcomes == {<<>>, <<"u1">>, <<"u1", "u1">>, <<"u1", "u2">>, <<BadUrl>>}
GalileoOutcomes == {"ok", "nokey", "unavailable", "logfail"}

\* The behaviours of the external services in Spec
Services ==
    [supervisor |-> Scripts(ClassifierTexts, {"fail"}),
     researcher |-> [c1 : Scripts({"", "R", "toolcall"}, Failures),
                     tool : ToolOutcomes,
                     c2 : Scripts({"", "R"}, Failures),
                     c3 : Scripts({"", "R"}, {"fail"})],
     analyst |-> Scripts({"", "A"}, {"fail"}),
     writer |-> Scripts({"", "W"}, {"fail"}),
     evaluator |-> Scripts(DOMAIN ReplyScores, {"fail"}),
     galileo |-> GalileoOutcomes]

\* The behaviours of the external services in PairSpec: a call answers at
\* once or fails on every attempt
PairServices ==
    [supervisor |-> {<<"done">>, <<"fail", "fail", "fail">>},
     researcher |-> [c1 : {<<"toolcall">>, <<"fail", "fail", "fail">>},
                     tool : {<<"u1", "u1">>, <<BadUrl>>},
                     c2 : {<<"R">>},
                     c3 : {<<"R">>}],
     analyst |-> {<<"A">>, <<"fail", "fail", "fail">>},
     writer |-> {<<"W">>, <<"fail", "fail", "fail">>},
     evaluator |-> {<<"s7777">>, <<"fail", "fail", "fail">>},
     galileo |-> {"ok"}]

\* The behaviours of the external services in FairSpec: a call answers at
\* once, with something or with nothing, or fails on every attempt
LiveServices ==
    [supervisor |-> {<<"done">>, <<"fail", "fail", "fail">>},
     researcher |-> [c1 : {<<"R">>, <<"">>, <<"fail", "fail", "fail">>},
                     tool : {<<"u1">>},
                     c2 : {<<"R">>},
                     c3 : {<<"R">>}],
     analyst |-> {<<"A">>, <<"">>, <<"fail", "fail", "fail">>},
     writer |-> {<<"W">>, <<"">>, <<"fail", "fail", "fail">>},
     evaluator |-> {<<"s7777">>, <<"fail", "fail", "fail">>},
     galileo |-> {"ok"}]

\* The update the node `node` returns on `state`, over the behaviours `svc`
\* of the external services it talks to.
NodeUpdates(node, state, tools, svc) ==
    CASE node = "supervisor" ->
            {supervisor_agent(state, b) : b \in svc.supervisor}
      [] node = "researcher" ->
            {researcher_agent(state, tools, io) : io \in svc.researcher}
      [] node = "analyst" ->
            {analyst_agent(state, b) : b \in svc.analyst}
      [] node = "writer" ->
            {writer_agent(state, b) : b \in svc.writer}
      [] node = "evaluator" ->
            {evaluator_agent(state, g, b) : g \in svc.galileo, b \in svc.evaluator}

\* ------------------------------------------------------------ run_workflow
initial_state(task) ==
    [messages |-> <<HumanMessage(task)>>, current_task |-> task]

\* f"Supervisor -> {to_agent}{suffix}"
supervisor_event(node_update, running_state) ==
    LET to0 == Get(node_update, "next_agent", "")
        to_agent == IF to0 # "" THEN to0 ELSE Get(running_state, "next_agent", "")
        r0 == Get(node_update, "routing_reason", "")
        reason == IF r0 # "" THEN r0 ELSE Get(running_state, "routing_reason", "")
    IN  IF to_agent # "" THEN <<[to |-> to_agent, reason |-> reason]>> ELSE <<>>

\* conversation_history: the content of every message
conversation_history(response) ==
    [i \in 1..Len(Get(response, "messages", <<>>)) |-> response["messages"][i].content]

\* urls found by the regular expression in the messages; the agents' own
\* messages quote at most the first 500 characters of the research text
extract_sources_from_messages(messages) == <<>>

\* TaskResult(...) of lines 165-172; pydantic rejects a source that is not a str
result_sources(response) ==
    IF Get(response, "sources", <<>>) # <<>> THEN response["sources"]
    ELSE extract_sources_from_messages(Get(response, "messages", <<>>))

result_valid(response) ==
    \A i \in 1..Len(result_sources(response)) : result_sources(response)[i] # BadUrl

TaskResult(response) ==
    [final_report |-> Get(response, "final_report", ""),
     evaluation_scores |-> IF "evaluation_scores" \in DOMAIN response
                           THEN Opt(response["evaluation_scores"]) ELSE NoneOpt,
     evaluation_feedback |-> Get(response, "evaluation_feedback", None),
     evaluation_passed |-> IF "evaluation_passed" \in DOMAIN response
                           THEN Opt(response["evaluation_passed"]) ELSE NoneOpt,
     conversation_history |-> conversation_history(response),
     sources |-> result_sources(response)]

NoProbe == [kind |-> "none"]

\* Variant: the response reports the status the record was created with
TaskCreateResponse_pending(task_id) ==
    [kind |-> "response", task_id |-> task_id, status |-> "pending"]

\* The body of the 202 response of POST /api/v1/tasks
TaskCreateResponse(task_id) ==
    [kind |-> "response", task_id |-> task_id, status |-> "processing"]

\* POST /api/v1/tasks: create the record, schedule run_workflow.
\* probe holds the response sent to the caller.
\* ids: the identifiers the specification lets uuid4 hand out.
Submit(ids, task, use_web_search) ==
    /\ ids \ issued # {}
    /\ LET task_id == uuid4(issued) IN
       /\ tasks' = create_task(tasks, task_id, task)
       /\ runs' = (task_id :> [pc |-> "scheduled", task |-> task,
                               use_web_search |-> use_web_search]) @@ runs
       /\ issued' = issued \cup {task_id}
       /\ probe' = TaskCreateResponse(task_id)
    /\ UNCHANGED <<environ, faults>>

\* run_workflow lines 82-88: status processing, first event, USE_WEB_SEARCH
RunStart(t) ==
    /\ t \in DOMAIN runs
    /\ runs[t].pc = "scheduled"
    /\ tasks' = append_event(update_status(tasks, t, "processing", None),
                             t, [to |-> "Workflow started", reason |-> ""])
    /\ environ' = IF runs[t].use_web_search THEN "true" ELSE "false"
    /\ runs' = [runs EXCEPT ![t].pc = "starting"]
    /\ UNCHANGED <<issued, faults, probe>>

\* lines 90-111: get_llm, create_workflow (reads USE_WEB_SEARCH), the
\* initial state and the first progress summary
RunInit(t, tools_available) ==
    /\ t \in DOMAIN runs
    /\ runs[t].pc = "starting"
    /\ LET s0 == initial_state(runs[t].task)
           web == (environ = "true")
       IN /\ runs' = [runs EXCEPT ![t] =
                 [pc |-> "stream", task |-> runs[t].task,
                  use_web_search |-> runs[t].use_web_search,
                  tools |-> web /\ tools_available,
                  node |-> "supervisor", step |-> 0,
                  state |-> s0, running_state |-> s0,
                  executed |-> <<>>, clean |-> TRUE,
                  stall |-> [pair |-> <<>>, count |-> 0]]]
          /\ tasks' = update_progress(tasks, t, extract_progress_from_state(s0))
    /\ UNCHANGED <<issued, environ, faults, probe>>

\* lines 248-258: the except branch of run_workflow up to the first write
\* of update_status.  A record that is gone makes update_status a no-op.
RunFailed(t, error_msg) ==
    IF t \in DOMAIN tasks
    THEN /\ tasks' = update_status_status(tasks, t, "failed")
         /\ runs' = [runs EXCEPT ![t] = [pc |-> "failing", error_msg |-> error_msg] @@ @]
    ELSE /\ tasks' = tasks
         /\ runs' = [runs EXCEPT ![t].pc = "failed"]

\* The rest of that update_status: `updated_at`, then `error`.  When the
\* record was deleted since the status was written, the subscript raises
\* KeyError inside the except branch, and the exception leaves run_workflow.
RunFailedError(t) ==
    /\ t \in DOMAIN runs
    /\ runs[t].pc = "failing"
    /\ IF t \in DOMAIN tasks
       THEN /\ tasks' = update_status_error(tasks, t, runs[t].error_msg)
            /\ runs' = [runs EXCEPT ![t].pc = "failed"]
       ELSE /\ tasks' = tasks
            /\ runs' = [runs EXCEPT ![t].pc = "crashed"]
    /\ UNCHANGED <<issued, environ, faults, probe>>

\* get_llm / get_researcher_llm / get_judge_llm raise (missing credential)
RunConfigError(t) ==
    /\ t \in DOMAIN runs
    /\ runs[t].pc = "starting"
    /\ RunFailed(t, "API_KEY not found")
    /\ UNCHANGED <<issued, environ, faults, probe>>

\* Whether the update is the one the node returns when it did its work:
\* the supervisor routed, the worker filled its field (the researcher with
\* sources that are strings), the evaluator passed the report.  The run
\* record keeps in `clean` whether every node so far did (history only,
\* nothing reads it).
StageSucceeded(node, node_update) ==
    CASE node = "supervisor" -> "error" \notin DOMAIN node_update
      [] node = "researcher" ->
            /\ Get(node_update, "research_data", "") # ""
            /\ \A i \in DOMAIN Get(node_update, "sources", <<>>) :
                  node_update["sources"][i] # BadUrl
      [] node = "analyst" -> Get(node_update, "analysis", "") # ""
      [] node = "writer" -> Get(node_update, "final_report", "") # ""
      [] node = "evaluator" -> Get(node_update, "evaluation_passed", FALSE)

\* The fields of a snapshot other than the conversation
Fingerprint(state) ==
    <<Get(state, "research_data", ""), Get(state, "analysis", ""),
      Get(state, "final_report", ""), Get(state, "evaluation_scores", NoScores),
      Get(state, "sources", <<>>), Get(state, "task_complete", FALSE),
      Get(state, "next_agent", "")>>

\* How many times in a row the graph has run the same worker on the same
\* fingerprint, the supervisor's own executions between them not counted.
\* The run record keeps it in `stall` (history only, nothing reads it: the
\* runner and the graph compare no snapshots).
Selected(stall, node, state) ==
    IF node = "supervisor" THEN stall
    ELSE IF stall.pair = <<node, Fingerprint(state)>>
    THEN [pair |-> stall.pair, count |-> stall.count + 1]
    ELSE [pair |-> <<node, Fingerprint(state)>>, count |-> 1]

\* One iteration of `for event in graph.stream(...)`: the graph runs the
\* node, applies its update and evaluates the router; the runner merges the
\* update, refreshes the progress and logs a supervisor decision.  An
\* exception leaving the node leaves graph.stream and reaches the except
\* branch of run_workflow.
StepWith(t, node_update) ==
    IF "exception" \in DOMAIN node_update
    THEN /\ tasks' = update_status_status(tasks, t, "failed")
         /\ runs' = [runs EXCEPT ![t] =
                       [pc |-> IF t \in DOMAIN tasks THEN "failing" ELSE "failed",
                        error_msg |-> node_update["exception"],
                        executed |-> Append(runs[t].executed, runs[t].node)] @@ @]
    ELSE
    LET state1 == graph_apply(runs[t].state, node_update)
        next == router(state1)
        running1 == merge_state(runs[t].running_state, node_update)
        store1 == update_progress(tasks, t, extract_progress_from_state(running1))
        ev == IF runs[t].node = "supervisor"
              THEN supervisor_event(node_update, running1) ELSE <<>>
    IN /\ tasks' = IF ev # <<>> THEN append_event(store1, t, ev[1]) ELSE store1
       /\ runs' = [runs EXCEPT ![t].state = state1,
                               ![t].running_state = running1,
                               ![t].step = @ + 1,
                               ![t].executed = Append(@, runs[t].node),
                               ![t].clean = @ /\ StageSucceeded(runs[t].node, node_update),
                               ![t].stall = Selected(@, runs[t].node, runs[t].state),
                               ![t].node = next,
                               ![t].pc = IF next = END THEN "finish" ELSE "stream"]

RunStep(t) ==
    /\ t \in DOMAIN runs
    /\ runs[t].pc = "stream"
    /\ runs[t].step < RecursionLimit
    /\ \E node_update \in NodeUpdates(runs[t].node, runs[t].state, runs[t].tools, Services) :
          StepWith(t, node_update)
    /\ UNCHANGED <<issued, environ, faults, probe>>

\* The same iteration in FairSpec
LiveRunStep(t) ==
    /\ t \in DOMAIN runs
    /\ runs[t].pc = "stream"
    /\ runs[t].step < RecursionLimit
    /\ \E node_update \in NodeUpdates(runs[t].node, runs[t].state, runs[t].tools, LiveServices) :
          StepWith(t, node_update)
    /\ UNCHANGED <<issued, environ, faults, probe>>

\* The same iteration in PairSpec: at most MaxFaults node executions, over
\* all runs, end in the node's except branch.
PairRunStep(t) ==
    /\ t \in DOMAIN runs
    /\ runs[t].pc = "stream"
    /\ runs[t].step < RecursionLimit
    /\ \E node_update \in NodeUpdates(runs[t].node, runs[t].state, runs[t].tools, PairServices) :
          /\ ("error" \in DOMAIN node_update) => faults < MaxFaults
          /\ faults' = IF "error" \in DOMAIN node_update THEN faults + 1 ELSE faults
          /\ StepWith(t, node_update)
    /\ UNCHANGED <<issued, environ, probe>>

\* str(GraphRecursionError)
RecursionMsg == "Recursion limit reached"

\* Variant: at the limit the stream just ends
RunRecursionError_swallowed(t) ==
    /\ t \in DOMAIN runs
    /\ runs[t].pc = "stream"
    /\ runs[t].step >= RecursionLimit
    /\ tasks' = tasks
    /\ runs' = [runs EXCEPT ![t].pc = "finish"]
    /\ UNCHANGED <<issued, environ, faults, probe>>

\* graph.stream raises GraphRecursionError: the limit of steps is used up
\* and the router still names a node
RunRecursionError(t) ==
    /\ t \in DOMAIN runs
    /\ runs[t].pc = "stream"
    /\ runs[t].step >= RecursionLimit
    /\ RunFailed(t, RecursionMsg)
    /\ UNCHANGED <<issued, environ, faults, probe>>

\* lines 135-175: build the TaskResult and start set_result, which writes
\* `result` first
RunFinish(t) ==
    /\ t \in DOMAIN runs
    /\ runs[t].pc = "finish"
    /\ IF result_valid(runs[t].running_state)
       THEN /\ tasks' = set_result_result(tasks, t, TaskResult(runs[t].running_state))
            /\ runs' = [runs EXCEPT ![t].pc =
                          IF t \in DOMAIN tasks THEN "completing" ELSE "done"]
       ELSE RunFailed(t, "validation error for TaskResult")
    /\ UNCHANGED <<issued, environ, faults, probe>>

\* The rest of set_result: `status`.  When the record was deleted since the
\* result was written, the subscript raises KeyError, the except branch runs
\* and its update_status finds no record.
RunCompleted(t) ==
    /\ t \in DOMAIN runs
    /\ runs[t].pc = "completing"
    /\ tasks' = set_result_status(tasks, t)
    /\ runs' = [runs EXCEPT ![t].pc = IF t \in DOMAIN tasks THEN "done" ELSE "failed"]
    /\ UNCHANGED <<issued, environ, faults, probe>>

\* DELETE /api/v1/tasks/{task_id}
Delete(t) ==
    /\ t \in DOMAIN tasks
    /\ tasks' = delete_task(tasks, t)
    /\ UNCHANGED <<issued, runs, environ, faults, probe>>

\* The same request served while update_status, append_event or
\* update_progress of the run is between its `in` test and one of its
\* writes: the write raises KeyError, the except branch of run_workflow
\* runs and its update_status finds no record.
DeleteMidWrite(t) ==
    /\ t \in DOMAIN tasks
    /\ t \in DOMAIN runs
    /\ runs[t].pc \in {"scheduled", "starting", "stream"}
    /\ tasks' = delete_task(tasks, t)
    /\ runs' = [runs EXCEPT ![t].pc = "failed"]
    /\ UNCHANGED <<issued, environ, faults, probe>>

Init ==
    /\ tasks = <<>>
    /\ issued = {}
    /\ faults = 0
    /\ runs = <<>>
    /\ environ = "unset"
    /\ probe = NoProbe

Next ==
    \/ \E task \in Texts, w \in BOOLEAN : Submit({"t1"}, task, w)
    \/ \E t \in TaskIds : RunStart(t)
    \/ \E t \in TaskIds, a \in BOOLEAN : RunInit(t, a)
    \/ \E t \in TaskIds : RunConfigError(t)
    \/ \E t \in TaskIds : RunStep(t)
    \/ \E t \in TaskIds : RunRecursionError(t)
    \/ \E t \in TaskIds : RunFinish(t)
    \/ \E t \in TaskIds : RunCompleted(t)
    \/ \E t \in TaskIds : RunFailedError(t)
    \/ \E t \in TaskIds : Delete(t)
    \/ \E t \in TaskIds : DeleteMidWrite(t)

Spec == Init /\ [][Next]_vars

\* One task again, for the progress of its run.  run_workflow is handed to
\* the thread pool when the response to the submission is sent, and every
\* external call returns or raises: the steps of a run are taken as long as
\* one is possible.  Requests to delete are under no such obligation.
RunActions(t) ==
    \/ RunStart(t)
    \/ RunInit(t, TRUE)
    \/ RunConfigError(t)
    \/ LiveRunStep(t)
    \/ RunRecursionError(t)
    \/ RunFinish(t)
    \/ RunCompleted(t)
    \/ RunFailedError(t)

LiveNext ==
    \/ \E task \in Texts : Submit({"t1"}, task, TRUE)
    \/ \E t \in TaskIds : RunStart(t)
    \/ \E t \in TaskIds : RunInit(t, TRUE)
    \/ \E t \in TaskIds : RunConfigError(t)
    \/ \E t \in TaskIds : LiveRunStep(t)
    \/ \E t \in TaskIds : RunRecursionError(t)
    \/ \E t \in TaskIds : RunFinish(t)
    \/ \E t \in TaskIds : RunCompleted(t)
    \/ \E t \in TaskIds : RunFailedError(t)
    \/ \E t \in TaskIds : Delete(t)
    \/ \E t \in TaskIds : DeleteMidWrite(t)

FairSpec ==
    Init /\ [][LiveNext]_vars /\ \A t \in TaskIds : WF_vars(RunActions(t))

\* Two tasks whose runs execute concurrently
PairNext ==
    \/ \E task \in Texts, w \in BOOLEAN : Submit(TaskIds, task, w)
    \/ \E t \in TaskIds : RunStart(t)
    \/ \E t \in TaskIds : RunInit(t, TRUE)
    \/ \E t \in TaskIds : RunConfigError(t)
    \/ \E t \in TaskIds : PairRunStep(t)
    \/ \E t \in TaskIds : RunRecursionError(t)
    \/ \E t \in TaskIds : RunFinish(t)
    \/ \E t \in TaskIds : RunCompleted(t)
    \/ \E t \in TaskIds : RunFailedError(t)
    \/ \E t \in TaskIds : Delete(t)
    \/ \E t \in TaskIds : DeleteMidWrite(t)

PairSpec == Init /\ [][PairNext]_vars

\* ============================================ the routing step, as a function
\* What the graph does between two worker stages: the conditional edge
\* (router) names the next node; when that is the supervisor, the supervisor
\* runs, its update is applied and the router is evaluated again.  The result
\* is a worker, END, or "supervisor" when the supervisor re-selected itself.
routing_step(state, beh) ==
    IF router(state) = "supervisor"
    THEN router(graph_apply(state, supervisor_agent(state, beh)))
    ELSE router(state)

Absent == "<absent>"
NextAgentValues ==
    {Absent, "", "supervisor", "researcher", "analyst", "writer", "evaluator",
     "end", "unknown"}

\* Every snapshot of SupervisorState over the fields routing reads
Snapshot(r, a, f, e, tc, na) ==
    LET base == [messages |-> <<HumanMessage("q")>>, current_task |-> "q",
                 research_data |-> r, analysis |-> a, final_report |-> f,
                 evaluation_scores |-> e, task_complete |-> tc]
    IN  IF na = Absent THEN base ELSE ("next_agent" :> na) @@ base

Snapshots ==
    {Snapshot(r, a, f, e, tc, na) :
        r \in {"", "R"}, a \in {"", "A"}, f \in {"", "FINAL REPORT(W)"},
        e \in {NoScores, ScoresDict(<<7, 7, 7, 7>>)},
        tc \in BOOLEAN, na \in NextAgentValues}

RouterScripts ==
    Scripts({"researcher", "analyst", "writer", "done"}, {"fail"})

RouterInit ==
    /\ tasks = <<>>
    /\ issued = {}
    /\ runs = <<>>
    /\ environ = "unset"
    /\ faults = 0
    /\ probe \in {[kind |-> "snapshot", state |-> sn] : sn \in Snapshots}

\* Apply the routing step to the snapshot
Route(beh) ==
    /\ probe.kind = "snapshot"
    /\ probe' = [kind |-> "routed", state |-> probe.state,
                 supervisor_ran |-> (router(probe.state) = "supervisor"),
                 classifier |-> supervisor_chain(beh),
                 chosen |-> routing_step(probe.state, beh)]
    /\ UNCHANGED <<tasks, issued, runs, environ, faults>>

RouterNext == \E beh \in RouterScripts : Route(beh)

RouterSpec == RouterInit /\ [][RouterNext]_vars

\* ================================================= the retry wrapper alone
RetryOutcomes == {"fail", "okA", "okB"}

RetryInit ==
    /\ tasks = <<>>
    /\ issued = {}
    /\ runs = <<>>
    /\ environ = "unset"
    /\ faults = 0
    /\ probe \in {[kind |-> "callable", beh |-> b] : b \in [1..MaxCalls -> RetryOutcomes]}

\* invoke_with_retry on a callable whose k-th invocation yields beh[k]
Invoke ==
    /\ probe.kind = "callable"
    /\ probe' = [kind |-> "invoked", beh |-> probe.beh,
                 out |-> invoke_with_retry(probe.beh)]
    /\ UNCHANGED <<tasks, issued, runs, environ, faults>>

RetryNext == Invoke

RetrySpec == RetryInit /\ [][RetryNext]_vars

\* ------------------------------------------------ the state merge alone
\* _merge_state applied to a snapshot and an update, and to the outcome and
\* a second update; probe holds the arguments and the outcomes.
MsgSeq(n) == [i \in 1..n |-> AIMessage(ToString(i))]
Optional(key, values) == {<<>>} \cup {key :> v : v \in values}
MergeSnapshots ==
    {m @@ r @@ a @@ so @@ e :
        m \in Optional("messages", {<<HumanMessage("q")>>}),
        r \in Optional("research_data", {"R1"}),
        a \in Optional("analysis", {"A1"}),
        so \in Optional("sources", {<<"u1">>}),
        e \in Optional("evaluation_scores", {ScoresDict(<<6, 7, 7, 7>>)})}
MergeUpdates ==
    {m @@ r @@ so @@ e :
        m \in Optional("messages", {MsgSeq(n) : n \in 0..MaxMsgs}),
        r \in Optional("research_data", {"", "R2"}),
        so \in Optional("sources", {<<>>, <<"u1">>, <<"u1", "u1">>, <<"u2">>}),
        e \in Optional("evaluation_scores", {ScoresDict(<<7, 7, 7, 7>>)})}

\* One update carrying the messages of u1 followed by those of u2
JoinMessages(u1, u2) ==
    [messages |-> Get(u1, "messages", <<>>) \o Get(u2, "messages", <<>>)]

MergeInit ==
    /\ tasks = <<>>
    /\ issued = {}
    /\ faults = 0
    /\ runs = <<>>
    /\ environ = "unset"
    /\ \E current \in MergeSnapshots : probe = [kind |-> "snapshot", current |-> current]

MergeFirst(u1) ==
    /\ probe.kind = "snapshot"
    /\ probe' = [kind |-> "merged1", current |-> probe.current, u1 |-> u1,
                 one |-> merge_state(probe.current, u1)]
    /\ UNCHANGED <<tasks, issued, runs, environ, faults>>

MergeSecond(u2) ==
    /\ probe.kind = "merged1"
    /\ probe' = [kind |-> "merged2", current |-> probe.current, u1 |-> probe.u1,
                 u2 |-> u2, one |-> probe.one,
                 two |-> merge_state(probe.one, u2),
                 joined |-> merge_state(probe.current, JoinMessages(probe.u1, u2)),
                 result_sources |-> result_sources(merge_state(probe.one, u2))]
    /\ UNCHANGED <<tasks, issued, runs, environ, faults>>

MergeNext ==
    \/ \E u1 \in MergeUpdates : MergeFirst(u1)
    \/ \E u2 \in MergeUpdates : MergeSecond(u2)

MergeSpec == MergeInit /\ [][MergeNext]_vars

\* ------------------------------------------------- the task store alone
\* The methods of TaskStore called one after another, in any order and
\* with any arguments, on records that exist and on ids that do not.
\* probe holds the last call and what it returned.
StoreEvent == [to |-> "researcher", reason |-> ""]
ProgressInputs ==
    [current_agent : {None}, completed_agents : {<<>>, <<"researcher">>},
     total_agents : {total_agents}, events : {<<>>, <<StoreEvent>>}]
StatusInputs ==
    {<<"processing", None>>, <<"failed", "boom">>, <<"failed", "">>}
ResultInput ==
    TaskResult([messages |-> <<HumanMessage("q")>>, final_report |-> "FINAL REPORT(W)"])

Called(op, task_id, arg, ret) ==
    probe' = [kind |-> "store", op |-> op, task_id |-> task_id, arg |-> arg, ret |-> ret]

StoreInit ==
    /\ tasks = <<>>
    /\ issued = {}
    /\ faults = 0
    /\ runs = <<>>
    /\ environ = "unset"
    /\ probe = NoProbe

StoreCreate(task) ==
    /\ TaskIds \ issued # {}
    /\ LET task_id == uuid4(issued) IN
       /\ tasks' = create_task(tasks, task_id, task)
       /\ issued' = issued \cup {task_id}
       /\ Called("create_task", task_id, <<task>>, <<task_id>>)
    /\ UNCHANGED <<runs, environ, faults>>

StoreUpdateStatus(t, in) ==
    /\ tasks' = update_status(tasks, t, in[1], in[2])
    /\ Called("update_status", t, in, NoneOpt)
    /\ UNCHANGED <<issued, runs, environ, faults>>

StoreUpdateProgress(t, progress) ==
    /\ tasks' = update_progress(tasks, t, progress)
    /\ Called("update_progress", t, <<progress>>, NoneOpt)
    /\ UNCHANGED <<issued, runs, environ, faults>>

StoreAppendEvent(t, event) ==
    /\ t \in DOMAIN tasks => Len(tasks[t].progress.events) < MaxEvents
    /\ tasks' = append_event(tasks, t, event)
    /\ Called("append_event", t, <<event>>, NoneOpt)
    /\ UNCHANGED <<issued, runs, environ, faults>>

StoreSetResult(t) ==
    /\ tasks' = set_result(tasks, t, ResultInput)
    /\ Called("set_result", t, <<ResultInput>>, NoneOpt)
    /\ UNCHANGED <<issued, runs, environ, faults>>

StoreDelete(t) ==
    /\ tasks' = delete_task(tasks, t)
    /\ Called("delete_task", t, <<>>, <<delete_task_returns(tasks, t)>>)
    /\ UNCHANGED <<issued, runs, environ, faults>>

StoreGet(t) ==
    /\ Called("get_task", t, <<>>, get_task(tasks, t))
    /\ UNCHANGED <<tasks, issued, runs, environ, faults>>

StoreList ==
    /\ Called("get_all_tasks", None, <<>>, <<get_all_tasks(tasks)>>)
    /\ UNCHANGED <<tasks, issued, runs, environ, faults>>

StoreNext ==
    \/ \E task \in Texts : StoreCreate(task)
    \/ \E t \in TaskIds, in \in StatusInputs : StoreUpdateStatus(t, in)
    \/ \E t \in TaskIds, progress \in ProgressInputs : StoreUpdateProgress(t, progress)
    \/ \E t \in TaskIds : StoreAppendEvent(t, StoreEvent)
    \/ \E t \in TaskIds : StoreSetResult(t)
    \/ \E t \in TaskIds : StoreDelete(t)
    \/ \E t \in TaskIds : StoreGet(t)
    \/ StoreList

StoreSpec == StoreInit /\ [][StoreNext]_vars

\* ------------------------------------------------- the evaluator alone
\* The evaluator on a report and every reply of the judge model over
\* ScoreValues.  EvaluationScores declares each score ge=0, le=10: a reply
\* outside that range does not validate, the structured call raises, on
\* every attempt, and the evaluator's except branch answers.
ScoreValues == {-1, 0, 6, 7, 8, 10, 11}
JudgeReplies == [1..4 -> ScoreValues]
EvaluationScores(v) == \A i \in 1..4 : v[i] >= 0 /\ v[i] <= 10

EvalInit ==
    /\ tasks = <<>>
    /\ issued = {}
    /\ faults = 0
    /\ runs = <<>>
    /\ environ = "unset"
    /\ probe \in {[kind |-> "reply", reply |-> v] : v \in JudgeReplies}

Evaluate ==
    /\ probe.kind = "reply"
    /\ probe' = [kind |-> "evaluated", reply |-> probe.reply,
                 valid |-> EvaluationScores(probe.reply),
                 out |-> IF EvaluationScores(probe.reply)
                         THEN evaluator_ok(probe.reply)
                         ELSE evaluator_error]
    /\ UNCHANGED <<tasks, issued, runs, environ, faults>>

EvalNext == Evaluate

EvalSpec == EvalInit /\ [][EvalNext]_vars

\* ---------------------------------------------------- one stage alone
\* A worker node called once on a snapshot, with or without what it needs.
\* probe holds the snapshot, the task text the node works on, the update
\* it returned and `updates`, the updates it returns on that snapshot over
\* all behaviours of the services: a node that returns before any call
\* has one.
Workers == {"researcher", "analyst", "writer", "evaluator"}
Placeholder ==
    [researcher |-> "research topic", analyst |-> "", writer |-> "", evaluator |-> ""]

StageSnapshots ==
    [messages : {<<>>, <<HumanMessage("q")>>},
     current_task : {"", "q"},
     research_data : {"", "R"},
     analysis : {"", "A"},
     final_report : {"", "FINAL REPORT(W)"}]

StageInit ==
    /\ tasks = <<>>
    /\ issued = {}
    /\ faults = 0
    /\ runs = <<>>
    /\ environ = "unset"
    /\ probe \in {[kind |-> "snapshot", state |-> sn] : sn \in StageSnapshots}

InvokeStage(node, tools) ==
    /\ probe.kind = "snapshot"
    /\ \E node_update \in NodeUpdates(node, probe.state, tools, Services) :
          probe' = [kind |-> "stage", node |-> node, state |-> probe.state,
                    task |-> IF node = "researcher"
                             THEN task_of(probe.state, Placeholder[node])
                             ELSE Get(probe.state, "current_task", ""),
                    update |-> node_update,
                    updates |-> NodeUpdates(node, probe.state, tools, Services)]
    /\ UNCHANGED <<tasks, issued, runs, environ, faults>>

StageNext == \E node \in Workers, tools \in BOOLEAN : InvokeStage(node, tools)

StageSpec == StageInit /\ [][StageNext]_vars

\* ------------------------------------------- the progress summary alone
\* extract_progress_from_state applied to every snapshot of the fields it
\* reads
ProgressInit ==
    /\ tasks = <<>>
    /\ issued = {}
    /\ faults = 0
    /\ runs = <<>>
    /\ environ = "unset"
    /\ probe \in {[kind |-> "snapshot", state |-> sn] : sn \in Snapshots}

ExtractProgress ==
    /\ probe.kind = "snapshot"
    /\ probe' = [kind |-> "progress", state |-> probe.state,
                 progress |-> extract_progress_from_state(probe.state)]
    /\ UNCHANGED <<tasks, issued, runs, environ, faults>>

ProgressNext == ExtractProgress

ProgressSpec == ProgressInit /\ [][ProgressNext]_vars

\* ------------------------------------------- the attempts of one stage
\* A node called once on a snapshot that has what the node needs, with
\* models that fail any number of times, up to MaxCalls, before they
\* answer or that never answer.  probe holds the number of attempts made.
AttemptScripts(V, F) ==
    {[i \in 1..MaxCalls |-> IF i < k THEN f ELSE v] :
        k \in 1..(MaxCalls + 1), v \in V, f \in F}

AttemptState ==
    [messages |-> <<HumanMessage("q")>>, current_task |-> "q",
     research_data |-> "R", analysis |-> "A", final_report |-> "FINAL REPORT(W)"]

AttemptInit ==
    /\ tasks = <<>>
    /\ issued = {}
    /\ faults = 0
    /\ runs = <<>>
    /\ environ = "unset"
    /\ probe = [kind |-> "snapshot", state |-> AttemptState]

Attempted(node, n) ==
    /\ probe.kind = "snapshot"
    /\ probe' = [kind |-> "attempts", node |-> node, attempts |-> n]
    /\ UNCHANGED <<tasks, issued, runs, environ, faults>>

AttemptSupervisor(beh) ==
    Attempted("supervisor", supervisor_attempts(probe.state, beh))

AttemptResearcher(tools, io) ==
    /\ probe.kind = "snapshot"
    /\ probe' = [kind |-> "attempts", node |-> "researcher",
                 attempts |-> researcher_attempts(probe.state, tools, io),
                 tools |-> tools, io |-> io]
    /\ UNCHANGED <<tasks, issued, runs, environ, faults>>

AttemptAnalyst(beh) ==
    Attempted("analyst", analyst_attempts(probe.state, beh))

AttemptWriter(beh) ==
    Attempted("writer", writer_attempts(probe.state, beh))

AttemptEvaluator(galileo, beh) ==
    Attempted("evaluator", evaluator_attempts(probe.state, galileo, beh))

AttemptNext ==
    \/ \E beh \in AttemptScripts(ClassifierTexts, {"fail"}) : AttemptSupervisor(beh)
    \/ \E tools \in BOOLEAN,
          io \in [c1 : AttemptScripts({"toolcall", "R"}, Failures),
                  tool : {<<"u1">>},
                  c2 : AttemptScripts({"R"}, Failures),
                  c3 : AttemptScripts({"R"}, {"fail"})] : AttemptResearcher(tools, io)
    \/ \E beh \in AttemptScripts({"A"}, {"fail"}) : AttemptAnalyst(beh)
    \/ \E beh \in AttemptScripts({"W"}, {"fail"}) : AttemptWriter(beh)
    \/ \E galileo \in GalileoOutcomes, beh \in AttemptScripts({"s7777"}, {"fail"}) :
          AttemptEvaluator(galileo, beh)

AttemptSpec == AttemptInit /\ [][AttemptNext]_vars

\* ====================================================== claims: routing
Routed == probe.kind = "routed"
PResearch == Get(probe.state, "research_data", "")
PReport == Get(probe.state, "final_report", "")
PScores == Get(probe.state, "evaluation_scores", NoScores)
PNextAgent == Get(probe.state, "next_agent", Absent)
PTaskComplete == Get(probe.state, "task_complete", FALSE)

C2_TerminateWhenEvaluated ==
    (Routed /\ PReport # "" /\ PScores # NoScores) => probe.chosen = END

\* ======================================================== claims: retry
Invoked == probe.kind = "invoked"

\* C4: a call that fails on its first two attempts and succeeds on the third
\* is invoked exactly 3 times and the third invocation's result is returned.
C4_ThirdAttemptReturned ==
    (Invoked /\ IsFailure(probe.beh[1]) /\ IsFailure(probe.beh[2])
       /\ ~IsFailure(probe.beh[3]))
    => /\ probe.out.calls = 3
       /\ ~probe.out.raised
       /\ probe.out.value = probe.beh[3]

\* The fourth invocation would have returned something else.
C4_Witness ==
    /\ Invoked
    /\ probe.beh[1] = "fail" /\ probe.beh[2] = "fail"
    /\ probe.beh[3] = "okA" /\ probe.beh[4] = "okB"
    /\ probe.out.calls = 3 /\ probe.out.value = "okA"

\* C5: a call that fails on every attempt is invoked exactly 3 times, never a
\* fourth, and the invoker then fails (the last exception is re-raised).
C5_ThreeAttemptsThenError ==
    (Invoked /\ \A k \in 1..StopAfterAttempt : IsFailure(probe.beh[k]))
    => /\ probe.out.calls = 3
       /\ probe.out.raised
       /\ IsFailure(probe.out.value)

\* Also when a fourth invocation would have succeeded.
C5_Witness ==
    /\ Invoked
    /\ \A k \in 1..3 : probe.beh[k] = "fail"
    /\ probe.beh[4] = "okA"
    /\ probe.out.raised /\ probe.out.calls = 3

\* ---------------------------------------------------------------------
\* Claims about a run (Spec, FairSpec, PairSpec)

Started(t) == t \in DOMAIN runs /\ "state" \in DOMAIN runs[t]
Executes(t, n) ==
    /\ Len(runs'[t].executed) = Len(runs[t].executed) + 1
    /\ runs'[t].executed[Len(runs'[t].executed)] = n
Count(seq, x) == Cardinality({i \in DOMAIN seq : seq[i] = x})
StageField ==
    [researcher |-> "research_data", analyst |-> "analysis", writer |-> "final_report"]

\* C3: once research_data, analysis or final_report is non-empty in a run,
\* no step of that run invokes the stage that produces it and no step
\* changes the field, in the graph's state or in the runner's merged copy.
C3_ProducedOnce ==
    [][\A t \in TaskIds : Started(t) =>
         \A n \in DOMAIN StageField :
            Get(runs[t].state, StageField[n], "") # ""
            => /\ ~Executes(t, n)
               /\ Get(runs'[t].state, StageField[n], "")
                    = Get(runs[t].state, StageField[n], "")
               /\ Get(runs'[t].running_state, StageField[n], "")
                    = Get(runs[t].running_state, StageField[n], "")]_vars

\* The analyst failed once and ran again; the researcher, whose field was
\* already there, ran once.
C3_Witness ==
    \E t \in TaskIds :
        /\ Started(t)
        /\ Count(runs[t].executed, "researcher") = 1
        /\ Count(runs[t].executed, "analyst") = 2
        /\ Get(runs[t].state, "research_data", "") # ""
        /\ Get(runs[t].state, "analysis", "") # ""

Stages == {"supervisor", "researcher", "analyst", "writer", "evaluator"}

\* C6: whatever the external calls of a stage do, the execution of the
\* stage ends with an update that adds one message to the conversation,
\* the run goes on with the routing step on the updated state, and the
\* status of the task is not touched.
C6_StageFailureContained ==
    [][\A t \in TaskIds : \A n \in Stages :
         (Started(t) /\ Executes(t, n))
         => /\ runs'[t].pc \in {"stream", "finish"}
            /\ Len(runs'[t].state["messages"]) = Len(runs[t].state["messages"]) + 1
            /\ SubSeq(runs'[t].state["messages"], 1, Len(runs[t].state["messages"]))
                 = runs[t].state["messages"]
            /\ runs'[t].node = router(runs'[t].state)
            /\ (runs'[t].pc = "finish") <=> (runs'[t].node = END)
            /\ (t \in DOMAIN tasks => /\ t \in DOMAIN tasks'
                                      /\ tasks'[t].status = tasks[t].status)]_vars

\* Supervisor, researcher and analyst have each failed and said so, and the
\* run is still going.
C6_Witness ==
    \E t \in TaskIds :
        /\ Started(t)
        /\ runs[t].pc = "stream"
        /\ \E i, j, k \in DOMAIN runs[t].state["messages"] :
              /\ runs[t].state["messages"][i].content = "Supervisor encountered an error"
              /\ runs[t].state["messages"][j].content = "Researcher encountered an error"
              /\ runs[t].state["messages"][k].content = "Analyst encountered an error"

StatusStep(a, b) ==
    \/ a = b
    \/ <<a, b>> \in {<<"pending", "processing">>,
                     <<"processing", "completed">>,
                     <<"processing", "failed">>}

\* C7: a record is created pending and stays pending exactly until its run
\* starts; from then on its status only moves processing -> completed or
\* processing -> failed, and completed and failed are never left.
C7_StatusLifecycle ==
    [][\A t \in TaskIds : t \in DOMAIN tasks' =>
         /\ IF t \in DOMAIN tasks
            THEN StatusStep(tasks[t].status, tasks'[t].status)
            ELSE tasks'[t].status = "pending"
         /\ (tasks'[t].status = "pending") <=> (runs'[t].pc = "scheduled")
         /\ tasks'[t].status \in {"pending", "processing", "completed", "failed"}]_vars

\* A record that went all the way to completed
C7_Witness ==
    \E t \in TaskIds :
        /\ t \in DOMAIN tasks
        /\ tasks[t].status = "completed"
        /\ runs[t].pc = "done"

\* C8: in every state of the task table a request can read, a completed
\* record carries a result, a failed record carries a non-empty error
\* message, and no failed record carries a result.
C8_TerminalPayload ==
    \A t \in DOMAIN tasks :
        /\ tasks[t].status = "completed" => tasks[t].result # NoneOpt
        /\ tasks[t].status = "failed"
             => /\ tasks[t].error # None /\ tasks[t].error # ""
                /\ tasks[t].result = NoneOpt
        /\ tasks[t].result # NoneOpt => tasks[t].status = "completed"

\* C9: an error that reaches run_workflow (a missing credential, the
\* recursion limit, an exception out of a node, a TaskResult that does not
\* validate) never leaves run_workflow; when the except branch is over the
\* task's record has status failed and carries the message; and the steps
\* of a failing run leave the records of the other tasks as they were.
C9_ErrorsBecomeFailed ==
    [][\A t \in TaskIds : t \in DOMAIN runs =>
         /\ runs'[t].pc # "crashed"
         /\ (runs[t].pc = "failing" /\ runs'[t].pc # "failing")
            => /\ t \in DOMAIN tasks'
               /\ tasks'[t].status = "failed"
               /\ tasks'[t].error = runs[t].error_msg
               /\ tasks'[t].error # ""
         /\ (runs'[t].pc # runs[t].pc /\ runs'[t].pc \in {"failing", "failed", "crashed"})
            => \A u \in TaskIds \ {t} :
                  /\ (u \in DOMAIN tasks) <=> (u \in DOMAIN tasks')
                  /\ u \in DOMAIN tasks => tasks'[u] = tasks[u]]_vars

Ended(t) ==
    /\ runs[t].pc \in {"done", "failed", "crashed"}
    /\ t \in DOMAIN tasks => tasks[t].status \in {"completed", "failed"}

\* C10: when the steps of a submitted run keep being taken, the run ends,
\* and from then on its record, as long as it exists, has status completed
\* or failed.
C10_RunsTerminate ==
    \A t \in TaskIds : (t \in DOMAIN runs) ~> [](t \in DOMAIN runs /\ Ended(t))

\* A run in which no stage ever produced anything, ended by the recursion
\* limit
C10_Witness ==
    \E t \in DOMAIN tasks :
        /\ Started(t)
        /\ tasks[t].status = "failed"
        /\ tasks[t].error = "Recursion limit reached"
        /\ runs[t].step = RecursionLimit
        /\ Get(runs[t].state, "research_data", "") = ""

\* ---------------------------------------------------------------------
GatherEmpty(t) == Started(t) /\ Get(runs[t].state, "research_data", "") = ""
LastContent(t) == runs[t].state["messages"][Len(runs[t].state["messages"])].content
LastExecuted(t) ==
    IF runs[t].executed = <<>> THEN "none"
    ELSE runs[t].executed[Len(runs[t].executed)]

HappyPath ==
    <<"supervisor", "researcher", "supervisor", "analyst", "supervisor",
      "writer", "evaluator">>
IsPrefix(p, q) == Len(p) <= Len(q) /\ SubSeq(q, 1, Len(p)) = p

C13_StallGuard ==
    [][\A t \in TaskIds :
         (Started(t) /\ runs[t].pc = "stream" /\ runs[t].stall.count >= StallLimit
            /\ runs'[t] # runs[t])
         => /\ runs'[t].pc \in {"failing", "failed"}
            /\ t \in DOMAIN tasks' => tasks'[t].status = "failed"]_vars

\* ---------------------------------------------------------------------
\* Claims about the task store (StoreSpec)
StoreCalled(op) == probe.kind = "store" /\ probe.op = op

\* C14: whatever method of the store is called, the event log a record
\* held before the call is a prefix of the log it holds after it; only
\* append_event changes the log, by one event at its end; update_progress
\* leaves it as it was whatever event list the new summary carries.
C14_EventLogAppendOnly ==
    [][\A t \in DOMAIN tasks \cap DOMAIN tasks' :
         /\ IsPrefix(tasks[t].progress.events, tasks'[t].progress.events)
         /\ tasks'[t].progress.events # tasks[t].progress.events
              => /\ probe'.op = "append_event" /\ probe'.task_id = t
                 /\ tasks'[t].progress.events
                      = Append(tasks[t].progress.events, probe'.arg[1])
         /\ (probe'.op = "update_progress" /\ probe'.task_id = t)
              => /\ tasks'[t].progress.events = tasks[t].progress.events
                 /\ tasks'[t].progress.completed_agents
                      = probe'.arg[1].completed_agents]_vars

\* A summary carrying one event was stored over a log of two, and a
\* summary carrying none too.
C14_Witness ==
    /\ StoreCalled("update_progress")
    /\ probe.task_id \in DOMAIN tasks
    /\ Len(tasks[probe.task_id].progress.events) = MaxEvents
    /\ probe.arg[1].events = <<StoreEvent>>
    /\ probe.arg[1].completed_agents # <<>>

\* ---------------------------------------------------------------------
Range(seq) == {seq[i] : i \in DOMAIN seq}

\* C15: between any two states of a record, the completed agents of the
\* earlier are among those of the later.
C15_CompletedMonotone ==
    [][\A t \in DOMAIN tasks \cap DOMAIN tasks' :
         Range(tasks[t].progress.completed_agents)
            \subseteq Range(tasks'[t].progress.completed_agents)]_vars

\* Researcher and analyst are reported completed after the writer failed.
C15_Witness ==
    \E t \in DOMAIN tasks :
        /\ Started(t)
        /\ LastContent(t) = "Writer encountered an error"
        /\ tasks[t].progress.completed_agents = <<"researcher", "analyst">>

\* ---------------------------------------------------------------------
\* Claims about the state merge (MergeSpec)
Merged1 == probe.kind \in {"merged1", "merged2"}
Merged2 == probe.kind = "merged2"
Messages(state) == Get(state, "messages", <<>>)

\* C16: merging u1 and then u2 gives the conversation that merging one
\* update with u1's messages followed by u2's gives, namely the snapshot's
\* messages, then u1's, then u2's, in their order; and the messages held
\* before a merge are a prefix of those held after it.
C16_ConversationAppend ==
    /\ Merged1 => /\ IsPrefix(Messages(probe.current), Messages(probe.one))
                  /\ Messages(probe.one)
                       = Messages(probe.current) \o Messages(probe.u1)
    /\ Merged2 => /\ Messages(probe.two) = Messages(probe.joined)
                  /\ IsPrefix(Messages(probe.one), Messages(probe.two))
                  /\ Messages(probe.two)
                       = (Messages(probe.current) \o Messages(probe.u1))
                            \o Messages(probe.u2)

\* Two updates of different lengths merged into a snapshot with a message
C16_Witness ==
    /\ Merged2
    /\ Len(Messages(probe.current)) = 1
    /\ Len(Messages(probe.u1)) = MaxMsgs
    /\ Len(Messages(probe.u2)) = 1
    /\ Len(Messages(probe.two)) = MaxMsgs + 2

\* ---------------------------------------------------------------------
Sources(state) == Get(state, "sources", <<>>)
NoDuplicates(seq) == \A i, j \in DOMAIN seq : seq[i] = seq[j] => i = j

\* C17: after a merge the snapshot's sources are those it had together
\* with those of the update, each once; merging the same update a second
\* time changes nothing; and the sources of the result built from the
\* snapshot hold no source twice.
C17_SourcesUnion ==
    /\ Merged1 => /\ Range(Sources(probe.one))
                       = Range(Sources(probe.current)) \cup Range(Sources(probe.u1))
                  /\ NoDuplicates(Sources(probe.one))
    /\ (Merged2 /\ probe.u2 = probe.u1)
          => Sources(probe.two) = Sources(probe.one)
    /\ Merged2 => NoDuplicates(probe.result_sources)

\* ---------------------------------------------------------------------
TextFields == {"research_data", "analysis"}

C19_RecordLifetime ==
    [][ probe'.kind = "store" =>
          LET op == probe'.op
              t  == probe'.task_id
          IN
          /\ op = "delete_task" =>
                /\ probe'.ret = <<t \in DOMAIN tasks>>
                /\ DOMAIN tasks' = DOMAIN tasks \ {t}
                /\ \A u \in DOMAIN tasks' : tasks'[u] = tasks[u]
          /\ op = "create_task" =>
                /\ t \notin issued
                /\ DOMAIN tasks' = DOMAIN tasks \cup {t}
                /\ \A u \in DOMAIN tasks : tasks'[u] = tasks[u]
          /\ op \notin {"delete_task", "create_task"} =>
                DOMAIN tasks' = DOMAIN tasks
          /\ op = "get_task" =>
                probe'.ret = IF t \in DOMAIN tasks THEN <<tasks[t]>> ELSE NoneOpt
          /\ op = "get_all_tasks" => probe'.ret = <<tasks>>
          /\ \A u \in issued \ DOMAIN tasks : u \notin DOMAIN tasks'
          /\ DOMAIN tasks' \subseteq issued'
      ]_vars

\* A second delete of a record already deleted answers false while the
\* other record is still in the store
C19_Witness ==
    /\ StoreCalled("delete_task")
    /\ probe.ret = <<FALSE>>
    /\ probe.task_id \in issued
    /\ DOMAIN tasks = issued \ {probe.task_id}
    /\ tasks # <<>>

\* ---------------------------------------------------------------------
Rec(f, t) == IF t \in DOMAIN f THEN <<f[t]>> ELSE <<>>
Touched(t) == Rec(tasks, t) # Rec(tasks', t) \/ Rec(runs, t) # Rec(runs', t)

\* C20: a submission takes an identifier never issued before and answers
\* it with status "processing" in the step that creates the record; at
\* that point the run is only scheduled and nothing of it has executed
\* (the record is pending, with no agent completed, no event and no
\* result); the records and runs that were there are left as they were;
\* a run leaves the scheduled position only for an identifier already
\* issued; and no step touches the records or runs of two identifiers.
C20_SubmitReturnsAtOnce ==
    [][ /\ issued' # issued =>
             \E t \in issued' \ issued :
                /\ issued' = issued \cup {t}
                /\ t \notin DOMAIN tasks /\ t \notin DOMAIN runs
                /\ probe' = [kind |-> "response", task_id |-> t, status |-> "processing"]
                /\ t \in DOMAIN tasks' /\ t \in DOMAIN runs'
                /\ tasks'[t].task_id = t
                /\ tasks'[t].status = "pending"
                /\ tasks'[t].progress = TaskProgress0
                /\ tasks'[t].result = NoneOpt
                /\ runs'[t].pc = "scheduled"
                /\ \A u \in TaskIds \ {t} :
                      Rec(tasks', u) = Rec(tasks, u) /\ Rec(runs', u) = Rec(runs, u)
        /\ \A t \in DOMAIN runs' :
              runs'[t].pc # "scheduled" => t \in issued /\ t \in DOMAIN runs
        /\ \A t \in TaskIds, u \in TaskIds :
              (t # u) => ~(Touched(t) /\ Touched(u))
      ]_vars

\* Two submissions of the same text: the first has completed, the second
\* has just been answered and its run has not started
C20_Witness ==
    /\ issued = {"t1", "t2"}
    /\ DOMAIN tasks = {"t1", "t2"}
    /\ tasks["t1"].task = tasks["t2"].task
    /\ tasks["t1"].status = "completed"
    /\ tasks["t2"].status = "pending"
    /\ runs["t2"].pc = "scheduled"
    /\ probe = [kind |-> "response", task_id |-> "t2", status |-> "processing"]

\* ---------------------------------------------------------------------
\* C21: each mutation of a record is one step for everything else that
\* touches the record.  The step that makes a record failed also stores
\* its error message, the step that stores a result also makes the record
\* completed, and a record is never removed while a mutation of it has
\* passed its existence test and still has a write to make.
C21_MutationsAtomic ==
    [][\A t \in TaskIds :
         /\ (t \in DOMAIN tasks /\ t \in DOMAIN tasks') =>
               /\ (tasks[t].status # "failed" /\ tasks'[t].status = "failed")
                     => tasks'[t].error # None
               /\ (tasks[t].result = NoneOpt /\ tasks'[t].result # NoneOpt)
                     => tasks'[t].status = "completed"
         /\ (t \in DOMAIN tasks /\ t \notin DOMAIN tasks' /\ t \in DOMAIN runs) =>
               /\ runs[t].pc \notin {"failing", "completing"}
               /\ runs'[t].pc = runs[t].pc]_vars

\* ---------------------------------------------------------------------
\* C22: the researcher of a run is built with the use_web_search value of
\* that run's own submission, whatever other runs are doing: with the
\* search tool available, it has the tool exactly when the submission
\* asked for web search.
C22_SearchFlagPerRun ==
    \A t \in DOMAIN runs :
        "tools" \in DOMAIN runs[t] => runs[t].tools = runs[t].use_web_search

\* ---------------------------------------------------------------------
\* C23: the routing step is a function of the snapshot.  Whatever text the
\* classifier answered in this execution, a second execution on the same
\* snapshot, with any other text for an answer, chooses the same node or
\* the same end of the run.
C23_RoutingDeterministic ==
    (Routed /\ ~probe.classifier.raised) =>
        \A beh \in RouterScripts :
            ~supervisor_chain(beh).raised
                => routing_step(probe.state, beh) = probe.chosen

\* The supervisor ran on a snapshot with research and no analysis, the
\* classifier answered "writer", and the analyst was chosen
C23_Witness ==
    /\ Routed
    /\ probe.supervisor_ran /\ ~probe.classifier.raised
    /\ probe.classifier.value = "writer"
    /\ PResearch = "R" /\ Get(probe.state, "analysis", "") = ""
    /\ PReport = ""
    /\ probe.chosen = "analyst"

\* ---------------------------------------------------------------------
\* The router on every value of next_agent and task_complete
RouterOnEvaluator ==
    \A na \in NextAgentValues, tc \in BOOLEAN :
        LET sn == Snapshot("R", "A", "FINAL REPORT(W)", NoScores, tc, na) IN
        /\ na = "evaluator" => router(sn) = "evaluator"
        /\ na # "evaluator" => (router(sn) = END <=> (tc \/ na = "end"))

\* The step of run t in which the writer produced a report
WriterSucceeded(t) ==
    /\ runs[t].pc = "stream" /\ runs[t].node = "writer"
    /\ runs'[t].pc \in {"stream", "finish"}
    /\ Executes(t, "writer")
    /\ Get(runs'[t].state, "final_report", "") # ""

C25_WriterHandsOver ==
    [][\A t \in TaskIds :
         (Started(t) /\ runs[t].pc = "stream" /\ runs[t].node = "writer"
            /\ "state" \in DOMAIN runs'[t] /\ runs'[t].pc \in {"stream", "finish"})
         => /\ WriterSucceeded(t)
                => /\ Get(runs'[t].state, "final_report", "") # ""
                   /\ Get(runs'[t].state, "next_agent", "") = "evaluator"
            /\ ~Get(runs'[t].state, "task_complete", FALSE)]_vars

\* ---------------------------------------------------------------------
Evaluated == probe.kind = "evaluated"

\* C26: an evaluation that succeeded stores the four metrics and no
\* others, each with the score of the reply, a number from 0 to 10;
\* evaluation_passed is true exactly when the four scores add up to 28 or
\* more; and next_agent is "supervisor", as it is when the evaluation
\* failed.
C26_EvaluationVerdict ==
    Evaluated =>
        /\ probe.out.next_agent = "supervisor"
        /\ probe.valid =>
              /\ DOMAIN probe.out.evaluation_scores = {Metrics[i] : i \in 1..4}
              /\ \A i \in 1..4 :
                    /\ probe.out.evaluation_scores[Metrics[i]] = probe.reply[i]
                    /\ probe.reply[i] \in 0..10
              /\ probe.out.evaluation_passed
                    <=> (probe.reply[1] + probe.reply[2] + probe.reply[3]
                           + probe.reply[4] >= 28)

\* Scores 10, 10, 8 and 0: the mean is exactly 7 and the report passes
C26_Witness ==
    /\ Evaluated /\ probe.valid
    /\ probe.reply = <<10, 10, 8, 0>>
    /\ probe.out.evaluation_passed
    /\ probe.out.evaluation_scores["actionability"] = 0

\* ---------------------------------------------------------------------
\* C27: a call that took n attempts slept n - 1 times, once before each
\* attempt after the first and never after the last, and the sleep before
\* attempt k + 1 was min(10, 2^k): 2 before the second attempt, 4 before
\* the third.
C27_Backoff ==
    Invoked =>
        /\ Len(probe.out.waits) = probe.out.calls - 1
        /\ \A k \in DOMAIN probe.out.waits :
              probe.out.waits[k] = Min2(10, Pow2(k))

\* ---------------------------------------------------------------------
StageRan(node) == probe.kind = "stage" /\ probe.node = node
OutputField ==
    [researcher |-> "research_data", analyst |-> "analysis",
     writer |-> "final_report", evaluator |-> "evaluation_scores"]
LacksPrerequisite ==
    \/ StageRan("analyst") /\ probe.state.research_data = ""
    \/ StageRan("writer")
          /\ (probe.state.research_data = "" \/ probe.state.analysis = "")
    \/ StageRan("evaluator") /\ probe.state.final_report = ""

\* C28: the analyst without research_data, the writer without
\* research_data or analysis, and the evaluator without final_report
\* return the same update whatever the services would have answered (they
\* are not called); the update holds the node's output field, empty, and
\* next_agent = "supervisor"; it raises nothing and does not set
\* task_complete.
C28_MissingPrerequisite ==
    LacksPrerequisite =>
        /\ probe.updates = {probe.update}
        /\ OutputField[probe.node] \in DOMAIN probe.update
        /\ probe.update[OutputField[probe.node]]
              = (IF probe.node = "evaluator" THEN NoScores ELSE "")
        /\ probe.update.next_agent = "supervisor"
        /\ "exception" \notin DOMAIN probe.update
        /\ ~Get(probe.update, "task_complete", FALSE)

\* The analyst called on a snapshot with a task and no research
C28_Witness ==
    /\ StageRan("analyst")
    /\ probe.state.research_data = "" /\ probe.state.current_task = "q"
    /\ probe.update.analysis = ""
    /\ probe.update.error = "No research data"

\* ---------------------------------------------------------------------
\* C29: the researcher called on a snapshot whose current_task is empty
\* and whose conversation holds no request returns, without any call, an
\* update with no research_data and no sources and next_agent =
\* "supervisor".
C29_GatherWithoutTask ==
    (/\ StageRan("researcher")
     /\ probe.state.current_task = "" /\ probe.state.messages = <<>>)
    => /\ probe.updates = {probe.update}
       /\ Get(probe.update, "research_data", "") = ""
       /\ Get(probe.update, "sources", <<>>) = <<>>
       /\ probe.update.next_agent = "supervisor"
       /\ "exception" \notin DOMAIN probe.update

\* ---------------------------------------------------------------------
\* A credential the run needs is missing: get_llm, get_researcher_llm or
\* get_judge_llm raised, or the evaluator found no GALILEO_API_KEY
ConfigError(t) ==
    \/ "error_msg" \in DOMAIN runs[t] /\ runs[t].error_msg = "API_KEY not found"
    \/ /\ "running_state" \in DOMAIN runs[t]
       /\ Get(runs[t].running_state, "error", "") = GalileoKeyMsg

\* C30: a run that met a missing credential has executed no node, and its
\* record is not completed, has no result and lists no completed agent.
C30_ConfigFailFast ==
    \A t \in DOMAIN runs :
        ConfigError(t) =>
            /\ "executed" \in DOMAIN runs[t] => runs[t].executed = <<>>
            /\ t \in DOMAIN tasks =>
                  /\ tasks[t].status # "completed"
                  /\ tasks[t].result = NoneOpt
                  /\ tasks[t].progress.completed_agents = <<>>

\* ---------------------------------------------------------------------
Extracted == probe.kind = "progress"
StageOrder == <<"researcher", "analyst", "writer", "evaluator">>
ProducedIn(state, stage) ==
    CASE stage = "researcher" -> Get(state, "research_data", "") # ""
      [] stage = "analyst" -> Get(state, "analysis", "") # ""
      [] stage = "writer" -> Get(state, "final_report", "") # ""
      [] stage = "evaluator" -> Get(state, "evaluation_scores", NoScores) # NoScores
ProbeProduced(stage) == ProducedIn(probe.state, stage)

Queryable(store, t) ==
    IF store[t].result = NoneOpt
    THEN [final_report |-> "", conversation_history |-> <<>>, sources |-> <<>>]
    ELSE [final_report |-> store[t].result[1].final_report,
          conversation_history |-> store[t].result[1].conversation_history,
          sources |-> store[t].result[1].sources]

\* C32: the step that makes a record failed leaves its progress summary
\* and its events as they were, and from then on a request reads from the
\* record what the run had gathered: its conversation, its sources and
\* its report.
C32_PartialResultsKept ==
    [][\A t \in DOMAIN tasks \cap DOMAIN tasks' :
         (tasks[t].status # "failed" /\ tasks'[t].status = "failed") =>
            /\ tasks'[t].progress = tasks[t].progress
            /\ Started(t) =>
                  /\ Queryable(tasks', t).conversation_history
                        = conversation_history(runs[t].running_state)
                  /\ Queryable(tasks', t).sources
                        = Get(runs[t].running_state, "sources", <<>>)
                  /\ Queryable(tasks', t).final_report
                        = Get(runs[t].running_state, "final_report", "")]_vars

\* ---------------------------------------------------------------------
Conversation(t) == runs[t].running_state["messages"]
ConversationNext(t) == runs'[t].running_state["messages"]

\* C33: the conversation of a run begins with the request; a step of the
\* run leaves the messages it held where they were and the step in which
\* a node executes, whatever the node and whether it did its work or
\* not, adds at least one message at the end, in the graph's state and in
\* the runner's copy alike; and the conversation_history of the result is
\* the content of every message of the conversation, in order.
C33_ConversationAppendOnly ==
    [][\A t \in TaskIds :
         /\ (t \in DOMAIN runs' /\ "running_state" \in DOMAIN runs'[t]) =>
               /\ ConversationNext(t)[1] = HumanMessage(runs'[t].task)
               /\ runs'[t].state["messages"] = ConversationNext(t)
         /\ (Started(t) /\ "running_state" \in DOMAIN runs'[t]) =>
               /\ IsPrefix(Conversation(t), ConversationNext(t))
               /\ Len(runs'[t].executed) > Len(runs[t].executed)
                     => Len(ConversationNext(t)) > Len(Conversation(t))
         /\ (/\ Started(t) /\ t \in DOMAIN tasks /\ t \in DOMAIN tasks'
             /\ tasks[t].result = NoneOpt /\ tasks'[t].result # NoneOpt) =>
               /\ Len(tasks'[t].result[1].conversation_history) = Len(Conversation(t))
               /\ \A i \in DOMAIN Conversation(t) :
                     tasks'[t].result[1].conversation_history[i]
                        = Conversation(t)[i].content]_vars

\* A completed task whose supervisor failed once: the transcript holds the
\* request, the supervisor's error and the messages of the eight nodes
\* that ran
C33_Witness ==
    \E t \in DOMAIN tasks :
        /\ tasks[t].status = "completed"
        /\ tasks[t].result # NoneOpt
        /\ Len(tasks[t].result[1].conversation_history) = 9
        /\ tasks[t].result[1].conversation_history[1] = "q"
        /\ \E i \in 2..9 :
              tasks[t].result[1].conversation_history[i] = "Supervisor encountered an error"

\* ---------------------------------------------------------------------
AttemptsMade == probe.kind = "attempts"

\* C34: one execution of the supervisor, the analyst, the writer or the
\* evaluator makes at most 3 attempts on its model, and one execution of
\* the researcher at most 9, however often the model fails.
C34_AttemptsBounded ==
    AttemptsMade =>
        /\ probe.node # "researcher" => probe.attempts <= 3
        /\ probe.node = "researcher" => probe.attempts <= 9

\* The researcher's tool-calling call answers on its third attempt, the
\* follow-up call fails three times with a tool-calling error, and the
\* plain call fails three times: nine attempts
C34_Witness ==
    /\ AttemptsMade
    /\ probe.node = "researcher" /\ probe.tools
    /\ probe.io.c1[3] = "toolcall" /\ probe.io.c2[3] = "tool_use_failed"
    /\ probe.io.c3[3] = "fail"
    /\ probe.attempts = 9

\* ---------------------------------------------------------------------
\* C35: in a run, task_complete is true only with a non-empty
\* final_report and next_agent is never "end"; a record is completed only
\* when its run's last two nodes were the writer and then the evaluator,
\* the evaluator having run once; and every result holds a non-empty
\* final_report.
C35_CompletedThroughWriter ==
    \A t \in DOMAIN runs :
        /\ Started(t) =>
              /\ Get(runs[t].state, "task_complete", FALSE)
                    => Get(runs[t].state, "final_report", "") # ""
              /\ Get(runs[t].state, "next_agent", "") # "end"
              /\ Get(runs[t].running_state, "next_agent", "") # "end"
        /\ t \in DOMAIN tasks =>
              /\ tasks[t].result # NoneOpt => tasks[t].result[1].final_report # ""
              /\ tasks[t].status = "completed" =>
                    /\ Started(t)
                    /\ LET ex == runs[t].executed IN
                       /\ Len(ex) >= 2
                       /\ ex[Len(ex) - 1] = "writer" /\ ex[Len(ex)] = "evaluator"
                       /\ Count(ex, "evaluator") = 1

\* A completed task whose writer got an empty text from its model: the
\* report stored is the frame around it, and the seven nodes ran in order
C35_Witness ==
    \E t \in DOMAIN tasks :
        /\ tasks[t].status = "completed"
        /\ tasks[t].result # NoneOpt
        /\ tasks[t].result[1].final_report = "FINAL REPORT()"
        /\ runs[t].executed = HappyPath

\* ---------------------------------------------------------------------
\* The last node run t executed is the evaluator and it ended in its
\* except branch
EvaluateFailed(t) ==
    /\ t \in DOMAIN runs /\ t \in DOMAIN tasks /\ Started(t)
    /\ Len(runs[t].executed) > 0
    /\ runs[t].executed[Len(runs[t].executed)] = "evaluator"
    /\ Get(runs[t].running_state, "evaluation_feedback", "") = "Error during evaluation"

C37_FieldOrder ==
    \A t \in DOMAIN tasks :
        /\ tasks[t].status = "completed" => tasks[t].result # NoneOpt
        /\ tasks[t].error # None => tasks[t].status = "failed"

\* Both windows are open at once: one record holds its result and is
\* still processing, another is failed and holds no error text yet
C37_Witness ==
    \E t, u \in DOMAIN tasks :
        /\ tasks[t].result # NoneOpt /\ tasks[t].status = "processing"
        /\ runs[t].pc = "completing"
        /\ tasks[u].status = "failed" /\ tasks[u].error = None
        /\ runs[u].pc = "failing"

\* ---------------------------------------------------------------------
\* The record of t was deleted and its run is recorded
Orphan(t) == t \in DOMAIN runs /\ t \notin DOMAIN tasks

\* C38: once the record of a run is deleted the table never holds its
\* identifier again; a step of such a run leaves the whole table as it
\* is; and a step that removes a record leaves every other record as it is.
C38_DeletedStaysDeleted ==
    [][\A t \in TaskIds :
         /\ Orphan(t) =>
               /\ t \notin DOMAIN tasks'
               /\ runs'[t] # runs[t] => tasks' = tasks
         /\ (t \in DOMAIN tasks /\ t \notin DOMAIN tasks') =>
               \A u \in DOMAIN tasks \ {t} :
                   u \in DOMAIN tasks' /\ tasks'[u] = tasks[u]]_vars

\* The record of a run was deleted between the two writes of the failure
\* handler, whose second write raised and left the run; another run went
\* on and completed, and its record is there
C38_Witness ==
    \E t, u \in TaskIds :
        /\ Orphan(t) /\ runs[t].pc = "crashed"
        /\ u \in DOMAIN tasks /\ tasks[u].status = "completed"
        /\ tasks[u].result # NoneOpt

\* ================================================== the polling client
\* streamlit_app.py.  The session of the page is kept in `probe`:
\* task_id and polling are st.session_state, rerun tells whether the last
\* execution of main() ended in st.rerun(), status is what the last poll
\* read ("none" before the first poll, "not found" for a 404).
Session0 ==
    [kind |-> "session", task_id |-> None, polling |-> FALSE,
     rerun |-> FALSE, status |-> "none"]

\* get_task_status: the body of a 200 response, None otherwise
get_task_status(store, task_id) == get_task(store, task_id)

\* Variant: the page asks again until it has read completed or failed
main_poll_until_terminal(session, task_data) ==
    IF task_data = NoneOpt
    THEN [session EXCEPT !.rerun = FALSE, !.status = "not found"]
    ELSE IF task_data[1].status \in {"completed", "failed"}
    THEN [session EXCEPT !.polling = FALSE, !.rerun = FALSE,
                         !.status = task_data[1].status]
    ELSE [session EXCEPT !.rerun = TRUE, !.status = task_data[1].status]

\* main, "Polling and progress display": what one poll does to the session
main_poll(session, task_data) ==
    IF task_data = NoneOpt
    THEN [session EXCEPT !.rerun = FALSE, !.status = "not found"]
    ELSE LET status == task_data[1].status IN
         IF status = "processing"
         THEN [session EXCEPT !.rerun = TRUE, !.status = status]
         ELSE IF status \in {"completed", "failed"}
         THEN [session EXCEPT !.polling = FALSE, !.rerun = FALSE, !.status = status]
         ELSE [session EXCEPT !.rerun = FALSE, !.status = status]

\* The Submit button: POST /api/v1/tasks with use_web_search true, then
\* the session takes the identifier and the page is run again
ClientSubmit(ids, task) ==
    /\ probe.kind = "session"
    /\ ids \ issued # {}
    /\ LET task_id == uuid4(issued) IN
       /\ tasks' = create_task(tasks, task_id, task)
       /\ runs' = (task_id :> [pc |-> "scheduled", task |-> task,
                               use_web_search |-> TRUE]) @@ runs
       /\ issued' = issued \cup {task_id}
       /\ probe' = [Session0 EXCEPT !.task_id = task_id, !.polling = TRUE,
                                    !.rerun = TRUE]
    /\ UNCHANGED <<environ, faults>>

\* One execution of main() that st.rerun() asked for, while polling
ClientPoll ==
    /\ probe.kind = "session"
    /\ probe.rerun /\ probe.polling /\ probe.task_id # None
    /\ probe' = main_poll(probe, get_task_status(tasks, probe.task_id))
    /\ UNCHANGED <<tasks, issued, runs, environ, faults>>

\* The buttons "Ask Another Question" and "Try Again"
ClientReset ==
    /\ probe.kind = "session"
    /\ probe.status \in {"completed", "failed"}
    /\ probe' = Session0
    /\ UNCHANGED <<tasks, issued, runs, environ, faults>>

PollInit ==
    /\ tasks = <<>>
    /\ issued = {}
    /\ faults = 0
    /\ runs = <<>>
    /\ environ = "unset"
    /\ probe = Session0

PollNext ==
    \/ \E task \in Texts : ClientSubmit({"t1"}, task)
    \/ ClientPoll
    \/ ClientReset
    \/ \E t \in TaskIds : RunStart(t)
    \/ \E t \in TaskIds : RunInit(t, TRUE)
    \/ \E t \in TaskIds : RunConfigError(t)
    \/ \E t \in TaskIds : LiveRunStep(t)
    \/ \E t \in TaskIds : RunRecursionError(t)
    \/ \E t \in TaskIds : RunFinish(t)
    \/ \E t \in TaskIds : RunCompleted(t)
    \/ \E t \in TaskIds : RunFailedError(t)
    \/ \E t \in TaskIds : Delete(t)

PollSpec == PollInit /\ [][PollNext]_vars

\* ---------------------------------------------------------------------
\* A poll of the task the session holds changed what the session shows
Polled ==
    /\ probe.kind = "session" /\ probe'.kind = "session"
    /\ probe.task_id # None /\ probe'.task_id = probe.task_id
    /\ probe' # probe

\* C39: the page polls again only when its last poll read "processing"
\* (or when it has not polled yet); a poll that reads completed or failed
\* ends the polling, and a poll that reads anything else than processing,
\* "pending" included, is not followed by another.
C39_PollingLoop ==
    [][Polled =>
         /\ probe.status \in {"none", "processing"}
         /\ probe'.rerun <=> probe'.status = "processing"
         /\ probe'.status \in {"completed", "failed"} => ~probe'.polling
         /\ probe'.status = "pending" => probe'.polling]_vars

\* The first poll came before the run's first step and read "pending":
\* the page asks no more, although the task has completed since
C39_Witness ==
    /\ probe.kind = "session"
    /\ probe.status = "pending" /\ ~probe.rerun /\ probe.polling
    /\ probe.task_id \in DOMAIN tasks
    /\ tasks[probe.task_id].status = "completed"

====
